---- MODULE Spec2Model ----
(***************************************************************************)
(* Model of js/dashboard.js (insurance analytics dashboard).              *)
(*                                                                         *)
(* The dataset (dashboardData) is loaded once and never mutated; the      *)
(* selection state (currentClass, currentMethod, selectedCohort,          *)
(* qualityThreshold, rhsPanelView) is changed by the event handlers, and   *)
(* every handler re-renders the views it names.                            *)
(*                                                                         *)
(* Numbers.  The dashboard computes in IEEE doubles.  The model computes   *)
(* the same expressions exactly, as reduced fractions <<num, den>> over    *)
(* small integer inputs.  Scores and the quality threshold are kept in     *)
(* hundredths (Proj_Quality 0.73 is 73, slider value 73 is 73), which is   *)
(* what parseInt(value) / 100 compares against.                            *)
(*                                                                         *)
(* null is NULL == <<>> and a present value v is Some(v) == <<v>>.         *)
(***************************************************************************)
EXTENDS Integers, Sequences, FiniteSets, TLC

VARIABLES phase, dashboardData, currentClass, currentMethod, selectedCohort,
          qualityThreshold, rhsPanelView, decisionTable, claimsTable,
          lhsChart, pctChart, normChart, methodsCount, scoresTable,
          chartViewMode, response, failure

vars == <<phase, dashboardData, currentClass, currentMethod, selectedCohort,
          qualityThreshold, rhsPanelView, decisionTable, claimsTable,
          lhsChart, pctChart, normChart, methodsCount, scoresTable,
          chartViewMode, response, failure>>

(* ------------------------------------------------------------------ *)
(* null / optional values                                             *)
(* ------------------------------------------------------------------ *)
NULL == <<>>
Some(v) == <<v>>
IsNull(o) == o = <<>>
Val(o) == o[1]

(* ------------------------------------------------------------------ *)
(* Exact fractions                                                    *)
(* ------------------------------------------------------------------ *)
Abs(n) == IF n < 0 THEN -n ELSE n

RECURSIVE Gcd(_, _)
Gcd(a, b) == IF b = 0 THEN a ELSE Gcd(b, a % b)

\* n / d as a reduced fraction with a positive denominator.  A zero
\* denominator (JS: Infinity or NaN) is kept as <<n, 0>>.
Frac(n, d) ==
    IF d = 0 THEN <<n, 0>>
    ELSE LET g == Gcd(Abs(n), Abs(d))
             s == IF d < 0 THEN -1 ELSE 1
         IN  <<(s * n) \div g, (s * d) \div g>>

FInt(n) == <<n, 1>>
FAdd(a, b) == Frac(a[1] * b[2] + b[1] * a[2], a[2] * b[2])
FSub(a, b) == Frac(a[1] * b[2] - b[1] * a[2], a[2] * b[2])
FMul(a, b) == Frac(a[1] * b[1], a[2] * b[2])
FDiv(a, b) == Frac(a[1] * b[2], a[2] * b[1])
FLt(a, b) == a[1] * b[2] < b[1] * a[2]
FLe(a, b) == a[1] * b[2] <= b[1] * a[2]
FGt(a, b) == FLt(b, a)
FGe(a, b) == FLe(b, a)
FAbs(a) == <<Abs(a[1]), a[2]>>
FIsZero(a) == a[1] = 0 /\ a[2] # 0
FFinite(a) == a[2] # 0

(* ------------------------------------------------------------------ *)
(* Sequence helpers                                                   *)
(* ------------------------------------------------------------------ *)
Range(s) == {s[i] : i \in 1..Len(s)}

\* Array.prototype.indexOf(x) >= 0
Includes(s, x) == \E i \in 1..Len(s) : s[i] = x

(* ------------------------------------------------------------------ *)
(* Constants of the dashboard                                         *)
(* ------------------------------------------------------------------ *)
MAX_DEV_PERIOD == 12
DEFAULT_LARGE_THRESHOLD == 100000
BASE_DP == 4
FAN_THRESHOLD == 10

\* DAG thresholds: 0.05, 0.15, 50 and 0.10
DAG_AE_THRESHOLD == <<1, 20>>
DAG_CLAIM_COUNT_THRESHOLD == <<3, 20>>
DAG_LARGE_LOSS_PCT_THRESHOLD == <<50, 1>>
DAG_PREMIUM_CHANGE_THRESHOLD == <<1, 10>>

(* ------------------------------------------------------------------ *)
(* Universe of the datasets that are drawn                            *)
(* ------------------------------------------------------------------ *)
\* Cohort keys in the order of Array.prototype.sort() on strings.
CohortOrder == <<"2021Q1", "2022Q1", "2023Q1">>
Cohorts == Range(CohortOrder)
Classes == {"Motor", "Property"}
Methods == {"CL", "BF"}
Types == {"Actual", "Expected"}

(* ------------------------------------------------------------------ *)
(* The collections of the dataset                                     *)
(* ------------------------------------------------------------------ *)
\* What reading an absent (or null) property of dashboardData gives.
Undefined == [u \in {0} |-> 0]

\* A variant without the default: dashboardData[name].
OrEmpty_NoDefault(name) ==
    IF name \in DOMAIN dashboardData THEN dashboardData[name] ELSE Undefined

\* dashboardData[name] || [] (|| {} for large_loss_thresholds): an absent
\* collection reads as the empty one.
OrEmpty(name) ==
    IF name \in DOMAIN dashboardData THEN dashboardData[name] ELSE <<>>

(* ------------------------------------------------------------------ *)
(* Utility functions                                                  *)
(* ------------------------------------------------------------------ *)
\* A variant of developmentFraction: the curve without the square.
developmentFraction_Linear(dp) ==
    LET t == Frac(dp, MAX_DEV_PERIOD)
    IN  IF FGe(t, FInt(1)) THEN FInt(1)
        ELSE IF FLe(t, FInt(0)) THEN FInt(0)
        ELSE t

\* A variant without the clamps.
developmentFraction_NoClamp(dp) ==
    LET t == Frac(dp, MAX_DEV_PERIOD)
    IN  FSub(FInt(1), FMul(FSub(FInt(1), t), FSub(FInt(1), t)))

\* developmentFraction(dp): 1 - (1 - dp/MAX)^2, clamped to [0, 1].
developmentFraction(dp) ==
    LET t == Frac(dp, MAX_DEV_PERIOD)
    IN  IF FGe(t, FInt(1)) THEN FInt(1)
        ELSE IF FLe(t, FInt(0)) THEN FInt(0)
        ELSE FSub(FInt(1), FMul(FSub(FInt(1), t), FSub(FInt(1), t)))

(* ------------------------------------------------------------------ *)
(* Data helpers                                                       *)
(* ------------------------------------------------------------------ *)
\* Array.prototype.sort(function (a, b) { return a.dp - b.dp; }):
\* a stable sort, here by insertion.
RECURSIVE InsertByDp(_, _)
InsertByDp(sorted, d) ==
    IF sorted = <<>> THEN <<d>>
    ELSE IF d.dp < Head(sorted).dp THEN <<d>> \o sorted
         ELSE <<Head(sorted)>> \o InsertByDp(Tail(sorted), d)

\* A variant that leaves the points in record order.
SortByDp_RecordOrder(s) == s

RECURSIVE SortByDp(_)
SortByDp(s) ==
    IF s = <<>> THEN <<>>
    ELSE InsertByDp(SortByDp(SubSeq(s, 1, Len(s) - 1)), s[Len(s)])

\* The points pushed to grouped[cohort][type], in record order.
Bucket(records, className, cohort, type) ==
    LET sel == SelectSeq(records, LAMBDA r : r.Class = className
                                             /\ r.Cohort = cohort
                                             /\ r.Type = type)
    IN  [i \in 1..Len(sel) |-> [dp |-> sel[i].Development_Period,
                                val |-> sel[i].Value]]

\* getGroupedData(className): cohort -> {Actual, Expected}, a key for each
\* cohort with a record of the class, each array sorted by dp.
getGroupedData(className) ==
    LET records == OrEmpty("records")
        keys == {r.Cohort : r \in {x \in Range(records) : x.Class = className}}
    IN  [c \in keys |->
            [Actual   |-> SortByDp(Bucket(records, className, c, "Actual")),
             Expected |-> SortByDp(Bucket(records, className, c, "Expected"))]]

\* First entry of a filtered list, or NULL.
FirstMatch(sel) == IF sel = <<>> THEN NULL ELSE Some(sel[1])

\* A variant that gives 0 for a missing entry.
getUltimate_ZeroDefault(className, cohort, method) ==
    LET m == FirstMatch(SelectSeq(OrEmpty("ultimates"),
                        LAMBDA u : u.Class = className /\ u.Cohort = cohort
                                   /\ u.Method = method))
    IN  IF IsNull(m) THEN Some(0) ELSE Some(Val(m).Ultimate)

getUltimate(className, cohort, method) ==
    LET m == FirstMatch(SelectSeq(OrEmpty("ultimates"),
                        LAMBDA u : u.Class = className /\ u.Cohort = cohort
                                   /\ u.Method = method))
    IN  IF IsNull(m) THEN NULL ELSE Some(Val(m).Ultimate)

getPriorUltimate(className, cohort, method) ==
    LET m == FirstMatch(SelectSeq(OrEmpty("prior_ultimates"),
                        LAMBDA p : p.Class = className /\ p.Cohort = cohort
                                   /\ p.Method = method))
    IN  IF IsNull(m) THEN NULL ELSE Some(Val(m).Ultimate)

\* total += u.Ultimate over a list of entries, in order.
RECURSIVE SumUltimate(_)
SumUltimate(sel) ==
    IF sel = <<>> THEN 0 ELSE Head(sel).Ultimate + SumUltimate(Tail(sel))

\* getTotalUltimate: the sum of the ultimates of a class and method.
getTotalUltimate(className, method) ==
    SumUltimate(SelectSeq(OrEmpty("ultimates"),
                          LAMBDA u : u.Class = className /\ u.Method = method))

\* Object.keys(grouped).sort()
SortedKeys(grouped) ==
    SelectSeq(CohortOrder, LAMBDA c : c \in DOMAIN grouped)

Reverse(s) == [i \in 1..Len(s) |-> s[Len(s) + 1 - i]]

getCohortsMostRecentFirst(grouped) == Reverse(SortedKeys(grouped))

\* The methods whose Proj_Quality passes a threshold, in score order.
PassingMethodsAt_Le(className, threshold) ==
    LET sel == SelectSeq(OrEmpty("method_scores"),
                         LAMBDA s : s.Class = className
                                    /\ s.Proj_Quality <= threshold)
    IN  [i \in 1..Len(sel) |-> sel[i].Method]

PassingMethodsAt(className, threshold) ==
    LET sel == SelectSeq(OrEmpty("method_scores"),
                         LAMBDA s : s.Class = className
                                    /\ s.Proj_Quality >= threshold)
    IN  [i \in 1..Len(sel) |-> sel[i].Method]

\* getPassingMethods(className) reads the global qualityThreshold.
getPassingMethods(className) == PassingMethodsAt(className, qualityThreshold)

RECURSIVE MinOf(_)
MinOf(s) ==
    IF Len(s) = 1 THEN s[1]
    ELSE LET m == MinOf(Tail(s)) IN IF s[1] < m THEN s[1] ELSE m

RECURSIVE MaxOf(_)
MaxOf(s) ==
    IF Len(s) = 1 THEN s[1]
    ELSE LET m == MaxOf(Tail(s)) IN IF s[1] > m THEN s[1] ELSE m

\* A variant with min and max exchanged.
getUltimateBand_Swapped(className, cohort, passingMethods) ==
    LET sel == SelectSeq(OrEmpty("ultimates"),
                         LAMBDA u : u.Class = className /\ u.Cohort = cohort
                                    /\ Includes(passingMethods, u.Method))
        vals == [i \in 1..Len(sel) |-> sel[i].Ultimate]
    IN  IF Len(vals) = 0 THEN NULL
        ELSE Some([min |-> MaxOf(vals), max |-> MinOf(vals),
                   count |-> Len(vals)])

\* A variant that takes the ultimates of every class.
getUltimateBand_AnyClass(className, cohort, passingMethods) ==
    LET sel == SelectSeq(OrEmpty("ultimates"),
                         LAMBDA u : u.Cohort = cohort
                                    /\ Includes(passingMethods, u.Method))
        vals == [i \in 1..Len(sel) |-> sel[i].Ultimate]
    IN  IF Len(vals) = 0 THEN NULL
        ELSE Some([min |-> MinOf(vals), max |-> MaxOf(vals),
                   count |-> Len(vals)])

\* A variant that gives no band to a cohort without Actual records.
getUltimateBand_NeedsActual(className, cohort, passingMethods) ==
    LET sel == SelectSeq(OrEmpty("ultimates"),
                         LAMBDA u : u.Class = className /\ u.Cohort = cohort
                                    /\ Includes(passingMethods, u.Method))
        vals == [i \in 1..Len(sel) |-> sel[i].Ultimate]
        hasActual == \E r \in Range(OrEmpty("records")) :
                        r.Class = className /\ r.Cohort = cohort
                        /\ r.Type = "Actual"
    IN  IF Len(vals) = 0 \/ ~hasActual THEN NULL
        ELSE Some([min |-> MinOf(vals), max |-> MaxOf(vals),
                   count |-> Len(vals)])

\* A variant whose band is the first of the values alone.
getUltimateBand_FirstOnly(className, cohort, passingMethods) ==
    LET sel == SelectSeq(OrEmpty("ultimates"),
                         LAMBDA u : u.Class = className /\ u.Cohort = cohort
                                    /\ Includes(passingMethods, u.Method))
    IN  IF Len(sel) = 0 THEN NULL
        ELSE Some([min |-> sel[1].Ultimate, max |-> sel[1].Ultimate,
                   count |-> 1])

\* getUltimateBand: min, max and count of the ultimates of the class and
\* cohort whose method is among passingMethods; NULL when there is none.
getUltimateBand(className, cohort, passingMethods) ==
    LET sel == SelectSeq(OrEmpty("ultimates"),
                         LAMBDA u : u.Class = className /\ u.Cohort = cohort
                                    /\ Includes(passingMethods, u.Method))
        vals == [i \in 1..Len(sel) |-> sel[i].Ultimate]
    IN  IF Len(vals) = 0 THEN NULL
        ELSE Some([min |-> MinOf(vals), max |-> MaxOf(vals),
                   count |-> Len(vals)])

\* thresholds[className] || 100000
getLargeThreshold(className) ==
    LET thresholds == OrEmpty("large_loss_thresholds")
    IN  IF className \in DOMAIN thresholds /\ thresholds[className] # 0
        THEN thresholds[className]
        ELSE DEFAULT_LARGE_THRESHOLD

getMethodScoresRow(className, method) ==
    LET m == FirstMatch(SelectSeq(OrEmpty("method_scores"),
                        LAMBDA s : s.Class = className /\ s.Method = method))
    IN  IF IsNull(m) THEN NULL
        ELSE Some([Reserve_Det |-> Val(m).Reserve_Det,
                   Proj_Quality |-> Val(m).Proj_Quality])

\* Method_Type of the first ultimate of the method that has one ("" is the
\* falsy, missing Method_Type).
getMethodType(method) ==
    LET m == FirstMatch(SelectSeq(OrEmpty("ultimates"),
                        LAMBDA u : u.Method = method /\ u.Method_Type # ""))
    IN  IF IsNull(m) THEN NULL ELSE Some(Val(m).Method_Type)

\* A variant without the guard on Prior_Earned.
getPremiumChange_NoZeroGuard(className, cohort) ==
    LET m == FirstMatch(SelectSeq(OrEmpty("premiums"),
                        LAMBDA p : p.Class = className /\ p.Cohort = cohort))
    IN  IF IsNull(m) THEN NULL
        ELSE Some([earned |-> Val(m).Earned, priorEarned |-> Val(m).Prior_Earned,
                   changePct |-> Frac(Val(m).Earned - Val(m).Prior_Earned,
                                      Val(m).Prior_Earned)])

\* getPremiumChange: NULL without a row or with a falsy Prior_Earned.
getPremiumChange(className, cohort) ==
    LET m == FirstMatch(SelectSeq(OrEmpty("premiums"),
                        LAMBDA p : p.Class = className /\ p.Cohort = cohort))
    IN  IF IsNull(m) THEN NULL
        ELSE LET p == Val(m)
                 prior == p.Prior_Earned
             IN  IF prior = 0 THEN NULL
                 ELSE Some([earned |-> p.Earned, priorEarned |-> prior,
                            changePct |-> Frac(p.Earned - prior, prior)])

\* getClaimCountChange: changePct 0 when the prior count is 0.
getClaimCountChange(className, cohort) ==
    LET m == FirstMatch(SelectSeq(OrEmpty("cohort_claim_counts"),
                        LAMBDA c : c.Class = className /\ c.Cohort = cohort))
    IN  IF IsNull(m) THEN NULL
        ELSE LET c == Val(m)
                 prior == c.Count_Prior
             IN  IF prior = 0
                 THEN Some([countCurrent |-> c.Count_Current, countPrior |-> 0,
                            changePct |-> FInt(0)])
                 ELSE Some([countCurrent |-> c.Count_Current,
                            countPrior |-> prior,
                            changePct |-> Frac(c.Count_Current - prior, prior)])

\* Largest ultimate among the claims-based entries of the class and cohort.
getMaxClaimsBasedUltimate(className, cohort) ==
    LET sel == SelectSeq(OrEmpty("ultimates"),
                         LAMBDA u : u.Class = className /\ u.Cohort = cohort
                                    /\ u.Method_Type = "Claims-based")
        vals == [i \in 1..Len(sel) |-> sel[i].Ultimate]
    IN  IF Len(vals) = 0 THEN NULL ELSE Some(MaxOf(vals))


(* ------------------------------------------------------------------ *)
(* Reserving decision DAG                                             *)
(* ------------------------------------------------------------------ *)
DagResult(driver, suggestion) == [driver |-> driver, suggestion |-> suggestion]

\* Variants of runDecisionDAG: rule 1 dropped; rules 3 and 4 swapped; rule 6
\* with >= for >.
runDecisionDAG_NoTolerance(className, cohort, opts) ==
    IF opts.fanningOutBoth
    THEN DagResult("Trend acceleration", "Check if the pattern is speeding up.")
    ELSE IF opts.claimCountUp15
    THEN DagResult("Claim frequency", "Check if the pattern was slowing down - movement may be driven by more claims than expected.")
    ELSE IF FGe(opts.largeLossPct, DAG_LARGE_LOSS_PCT_THRESHOLD)
    THEN DagResult("Large losses", "Keep pattern as-is but treat large losses separately.")
    ELSE IF FGe(opts.premiumChangePct, DAG_PREMIUM_CHANGE_THRESHOLD)
    THEN DagResult("Premium growth", "Move toward premium-based method.")
    ELSE IF /\ opts.methodType = "Premium-based"
            /\ ~IsNull(opts.maxClaimsBasedUltimate)
            /\ ~IsNull(opts.currentUltimate)
            /\ Val(opts.maxClaimsBasedUltimate) > Val(opts.currentUltimate)
    THEN DagResult("Method mismatch", "Switch to claims-based method.")
    ELSE DagResult("Unclear", "Manual review of cohort experience.")

runDecisionDAG_LargeFirst(className, cohort, opts) ==
    IF ~opts.aeOverThreshold THEN DagResult("", "")
    ELSE IF opts.fanningOutBoth
    THEN DagResult("Trend acceleration", "Check if the pattern is speeding up.")
    ELSE IF FGe(opts.largeLossPct, DAG_LARGE_LOSS_PCT_THRESHOLD)
    THEN DagResult("Large losses", "Keep pattern as-is but treat large losses separately.")
    ELSE IF opts.claimCountUp15
    THEN DagResult("Claim frequency", "Check if the pattern was slowing down - movement may be driven by more claims than expected.")
    ELSE IF FGe(opts.premiumChangePct, DAG_PREMIUM_CHANGE_THRESHOLD)
    THEN DagResult("Premium growth", "Move toward premium-based method.")
    ELSE IF /\ opts.methodType = "Premium-based"
            /\ ~IsNull(opts.maxClaimsBasedUltimate)
            /\ ~IsNull(opts.currentUltimate)
            /\ Val(opts.maxClaimsBasedUltimate) > Val(opts.currentUltimate)
    THEN DagResult("Method mismatch", "Switch to claims-based method.")
    ELSE DagResult("Unclear", "Manual review of cohort experience.")

runDecisionDAG_MismatchGe(className, cohort, opts) ==
    IF ~opts.aeOverThreshold THEN DagResult("", "")
    ELSE IF opts.fanningOutBoth
    THEN DagResult("Trend acceleration", "Check if the pattern is speeding up.")
    ELSE IF opts.claimCountUp15
    THEN DagResult("Claim frequency", "Check if the pattern was slowing down - movement may be driven by more claims than expected.")
    ELSE IF FGe(opts.largeLossPct, DAG_LARGE_LOSS_PCT_THRESHOLD)
    THEN DagResult("Large losses", "Keep pattern as-is but treat large losses separately.")
    ELSE IF FGe(opts.premiumChangePct, DAG_PREMIUM_CHANGE_THRESHOLD)
    THEN DagResult("Premium growth", "Move toward premium-based method.")
    ELSE IF /\ opts.methodType = "Premium-based"
            /\ ~IsNull(opts.maxClaimsBasedUltimate)
            /\ ~IsNull(opts.currentUltimate)
            /\ Val(opts.maxClaimsBasedUltimate) >= Val(opts.currentUltimate)
    THEN DagResult("Method mismatch", "Switch to claims-based method.")
    ELSE DagResult("Unclear", "Manual review of cohort experience.")

\* runDecisionDAG(className, cohort, opts): the first rule that holds.
\* A variant whose fallback carries no suggestion.
runDecisionDAG_BareFallback(className, cohort, opts) ==
    IF ~opts.aeOverThreshold THEN DagResult("", "")
    ELSE IF opts.fanningOutBoth
    THEN DagResult("Trend acceleration", "Check if the pattern is speeding up.")
    ELSE IF opts.claimCountUp15
    THEN DagResult("Claim frequency",
                   "Check if the pattern was slowing down - movement may be driven by more claims than expected.")
    ELSE IF FGe(opts.largeLossPct, DAG_LARGE_LOSS_PCT_THRESHOLD)
    THEN DagResult("Large losses",
                   "Keep pattern as-is but treat large losses separately.")
    ELSE IF FGe(opts.premiumChangePct, DAG_PREMIUM_CHANGE_THRESHOLD)
    THEN DagResult("Premium growth", "Move toward premium-based method.")
    ELSE IF /\ opts.methodType = "Premium-based"
            /\ ~IsNull(opts.maxClaimsBasedUltimate)
            /\ ~IsNull(opts.currentUltimate)
            /\ Val(opts.maxClaimsBasedUltimate) > Val(opts.currentUltimate)
    THEN DagResult("Method mismatch", "Switch to claims-based method.")
    ELSE DagResult("Unclear", "")

runDecisionDAG(className, cohort, opts) ==
    IF ~opts.aeOverThreshold THEN DagResult("", "")
    ELSE IF opts.fanningOutBoth
    THEN DagResult("Trend acceleration", "Check if the pattern is speeding up.")
    ELSE IF opts.claimCountUp15
    THEN DagResult("Claim frequency",
                   "Check if the pattern was slowing down - movement may be driven by more claims than expected.")
    ELSE IF FGe(opts.largeLossPct, DAG_LARGE_LOSS_PCT_THRESHOLD)
    THEN DagResult("Large losses",
                   "Keep pattern as-is but treat large losses separately.")
    ELSE IF FGe(opts.premiumChangePct, DAG_PREMIUM_CHANGE_THRESHOLD)
    THEN DagResult("Premium growth", "Move toward premium-based method.")
    ELSE IF /\ opts.methodType = "Premium-based"
            /\ ~IsNull(opts.maxClaimsBasedUltimate)
            /\ ~IsNull(opts.currentUltimate)
            /\ Val(opts.maxClaimsBasedUltimate) > Val(opts.currentUltimate)
    THEN DagResult("Method mismatch", "Switch to claims-based method.")
    ELSE DagResult("Unclear", "Manual review of cohort experience.")

(* ------------------------------------------------------------------ *)
(* A-vs-E attribution                                                 *)
(* ------------------------------------------------------------------ *)
\* A variant that counts a claim as large only strictly above the threshold.
RECURSIVE AttributionLoop_Strict(_, _, _)
AttributionLoop_Strict(cohortClaims, threshold, acc) ==
    IF cohortClaims = <<>> THEN acc
    ELSE LET c == Head(cohortClaims)
             mov == c.Incurred_Current - c.Incurred_Prior
             isLarge == c.Incurred_Current > threshold
         IN  AttributionLoop_Strict(Tail(cohortClaims), threshold,
                [total |-> acc.total + mov,
                 large |-> IF isLarge THEN acc.large + mov ELSE acc.large,
                 attritional |-> IF isLarge THEN acc.attritional
                                 ELSE acc.attritional + mov,
                 largeLossCount |-> IF isLarge THEN acc.largeLossCount + 1
                                    ELSE acc.largeLossCount,
                 attritionalCount |-> IF isLarge THEN acc.attritionalCount
                                      ELSE acc.attritionalCount + 1])

\* The forEach over cohortClaims: running sums and counts.
RECURSIVE AttributionLoop(_, _, _)
AttributionLoop(cohortClaims, threshold, acc) ==
    IF cohortClaims = <<>> THEN acc
    ELSE LET c == Head(cohortClaims)
             mov == c.Incurred_Current - c.Incurred_Prior
             isLarge == c.Incurred_Current >= threshold
         IN  AttributionLoop(Tail(cohortClaims), threshold,
                [total |-> acc.total + mov,
                 large |-> IF isLarge THEN acc.large + mov ELSE acc.large,
                 attritional |-> IF isLarge THEN acc.attritional
                                 ELSE acc.attritional + mov,
                 largeLossCount |-> IF isLarge THEN acc.largeLossCount + 1
                                    ELSE acc.largeLossCount,
                 attritionalCount |-> IF isLarge THEN acc.attritionalCount
                                      ELSE acc.attritionalCount + 1])

\* A variant without the guard on a zero total.
LargePct_NoGuard(large, total) == FMul(Frac(large, total), FInt(100))

\* largePct = total !== 0 ? (large / total) * 100 : 0
LargePct(large, total) ==
    IF total # 0 THEN FMul(Frac(large, total), FInt(100)) ELSE FInt(0)

getAEAttribution(className, cohort) ==
    LET threshold == getLargeThreshold(className)
        cohortClaims == SelectSeq(OrEmpty("claims"),
                                  LAMBDA c : c.Class = className
                                             /\ c.Cohort = cohort)
        acc == AttributionLoop(cohortClaims, threshold,
                   [total |-> 0, large |-> 0, attritional |-> 0,
                    largeLossCount |-> 0, attritionalCount |-> 0])
    IN  [total |-> acc.total,
         large |-> acc.large,
         attritional |-> acc.attritional,
         largePct |-> LargePct(acc.large, acc.total),
         largeLossCount |-> acc.largeLossCount,
         attritionalCount |-> acc.attritionalCount,
         totalCount |-> Len(cohortClaims),
         threshold |-> threshold]

(* ------------------------------------------------------------------ *)
(* Development series and fanning                                     *)
(* ------------------------------------------------------------------ *)
\* dpMap[d.dp] = pct for each point in order: the last point of a dp wins.
DpMapOf(dpVals) ==
    [dp \in {dpVals[i].dp : i \in 1..Len(dpVals)} |->
        LET last == CHOOSE i \in 1..Len(dpVals) :
                        /\ dpVals[i].dp = dp
                        /\ \A j \in (i + 1)..Len(dpVals) : dpVals[j].dp # dp
        IN  dpVals[last].pct]

\* One series entry: every Actual point as a percentage of base.
SeriesEntry(cohort, actual, base) ==
    LET dpVals == [i \in 1..Len(actual) |->
                      [dp |-> actual[i].dp,
                       pct |-> FMul(Frac(actual[i].val, base), FInt(100))]]
    IN  [cohort |-> cohort, dpVals |-> dpVals, dpMap |-> DpMapOf(dpVals)]

\* The value of the first Actual point at BASE_DP, or NULL.
BaseVal(actual) ==
    LET m == FirstMatch(SelectSeq(actual, LAMBDA d : d.dp = BASE_DP))
    IN  IF IsNull(m) THEN NULL ELSE Some(Val(m).val)

buildNormSeries(grouped, cohorts) ==
    LET kept == SelectSeq(cohorts,
                    LAMBDA c : /\ Len(grouped[c].Actual) # 0
                               /\ ~IsNull(BaseVal(grouped[c].Actual))
                               /\ Val(BaseVal(grouped[c].Actual)) # 0)
    IN  [i \in 1..Len(kept) |->
            SeriesEntry(kept[i], grouped[kept[i]].Actual,
                        Val(BaseVal(grouped[kept[i]].Actual)))]

\* A variant that keeps a cohort whose ultimate is 0.
buildPctSeries_NoZeroGuard(grouped, cohorts, className, method) ==
    LET Ult(c) == getUltimate(className, c, method)
        kept == SelectSeq(cohorts,
                    LAMBDA c : /\ ~IsNull(Ult(c))
                               /\ Len(grouped[c].Actual) # 0)
    IN  [i \in 1..Len(kept) |->
            SeriesEntry(kept[i], grouped[kept[i]].Actual, Val(Ult(kept[i])))]

buildPctSeries(grouped, cohorts, className, method) ==
    LET Ult(c) == getUltimate(className, c, method)
        kept == SelectSeq(cohorts,
                    LAMBDA c : /\ ~IsNull(Ult(c))
                               /\ Val(Ult(c)) # 0
                               /\ Len(grouped[c].Actual) # 0)
    IN  [i \in 1..Len(kept) |->
            SeriesEntry(kept[i], grouped[kept[i]].Actual, Val(Ult(kept[i])))]

RECURSIVE FSum(_)
FSum(s) == IF s = <<>> THEN FInt(0) ELSE FAdd(Head(s), FSum(Tail(s)))

SetMax(S) == CHOOSE x \in S : \A y \in S : y <= x

\* A variant that also examines a series with a single period.
IsFanning_NoMinPoints(cohortSeriesData, i) ==
    LET current == cohortSeriesData[i]
        dps == DOMAIN current.dpMap
    IN  /\ Cardinality(dps) >= 1
        /\ LET lastDP == SetMax(dps)
               older == SelectSeq([j \in 1..(i - 1) |-> cohortSeriesData[j]],
                                  LAMBDA o : lastDP \in DOMAIN o.dpMap)
               vals == [j \in 1..Len(older) |-> older[j].dpMap[lastDP]]
           IN  /\ Len(older) # 0
               /\ LET avg == FDiv(FSum(vals), FInt(Len(vals)))
                      val == current.dpMap[lastDP]
                  IN  FGt(FSub(val, avg), FInt(FAN_THRESHOLD))

\* Whether the series at index i (1-based) is flagged: at its last DP its
\* value exceeds the average of the older series having that DP by more
\* than FAN_THRESHOLD.
IsFanning(cohortSeriesData, i) ==
    LET current == cohortSeriesData[i]
        dps == DOMAIN current.dpMap
    IN  /\ Cardinality(dps) >= 2
        /\ LET lastDP == SetMax(dps)
               older == SelectSeq([j \in 1..(i - 1) |-> cohortSeriesData[j]],
                                  LAMBDA o : lastDP \in DOMAIN o.dpMap)
               vals == [j \in 1..Len(older) |-> older[j].dpMap[lastDP]]
           IN  /\ Len(older) # 0
               /\ LET avg == FDiv(FSum(vals), FInt(Len(vals)))
                      val == current.dpMap[lastDP]
                  IN  FGt(FSub(val, avg), FInt(FAN_THRESHOLD))

\* The index of the first series that is examined (JS: for (var i = 1; ...)).
FanningFirstIndex == 2

\* A variant without the minimum of three series.
detectFanningCohorts_NoMinimum(cohortSeriesData) ==
    LET idx == SelectSeq([i \in 1..Len(cohortSeriesData) |-> i],
                   LAMBDA i : i >= FanningFirstIndex
                              /\ IsFanning(cohortSeriesData, i))
    IN  [k \in 1..Len(idx) |-> cohortSeriesData[idx[k]].cohort]

detectFanningCohorts(cohortSeriesData) ==
    IF Len(cohortSeriesData) < 3 THEN <<>>
    ELSE LET idx == SelectSeq([i \in 1..Len(cohortSeriesData) |-> i],
                        LAMBDA i : i >= FanningFirstIndex
                                   /\ IsFanning(cohortSeriesData, i))
         IN  [k \in 1..Len(idx) |-> cohortSeriesData[idx[k]].cohort]


(* ------------------------------------------------------------------ *)
(* Reserving Decisions table                                          *)
(* ------------------------------------------------------------------ *)
bucketResDet(val) ==
    IF IsNull(val) THEN "-"
    ELSE IF Val(val) >= 70 THEN "HIGH"
    ELSE IF Val(val) >= 40 THEN "MED"
    ELSE "LOW"

bucketPQ(val) ==
    IF IsNull(val) THEN "-"
    ELSE IF Val(val) >= 70 THEN "High"
    ELSE IF Val(val) >= 40 THEN "Med"
    ELSE "Low"

LastPoint(data) == data.Actual[Len(data.Actual)]

\* e2u = data.Expected.length > 0 ? data.Expected[0].val : null
E2U(data) == IF Len(data.Expected) > 0 THEN Some(data.Expected[1].val) ELSE NULL

\* expectedAtDP = e2u * developmentFraction(lastDP)
ExpectedAtDP(data) ==
    FMul(FInt(Val(E2U(data))), developmentFraction(LastPoint(data).dp))

\* aeRatio = (lastActual - expectedAtDP) / expectedAtDP
AeRatio(data) ==
    FDiv(FSub(FInt(LastPoint(data).val), ExpectedAtDP(data)), ExpectedAtDP(data))

\* The cohorts that get a row: an Actual point, a truthy e2u and a truthy
\* expectedAtDP.
HasDecisionRow(data) ==
    /\ Len(data.Actual) # 0
    /\ ~IsNull(E2U(data))
    /\ Val(E2U(data)) # 0
    /\ ~FIsZero(ExpectedAtDP(data))

\* The opts handed to runDecisionDAG for one cohort.
DecisionOpts(cls, mth, cohort, data, inFO, methodType) ==
    LET attribution == getAEAttribution(cls, cohort)
        premiumChg == getPremiumChange(cls, cohort)
        claimCountChg == getClaimCountChange(cls, cohort)
    IN  [aeOverThreshold |-> FGt(FAbs(AeRatio(data)), DAG_AE_THRESHOLD),
         fanningOutBoth |-> inFO,
         claimCountUp15 |-> IF IsNull(claimCountChg) THEN FALSE
                            ELSE FGe(Val(claimCountChg).changePct,
                                     DAG_CLAIM_COUNT_THRESHOLD),
         largeLossPct |-> attribution.largePct,
         premiumChangePct |-> IF IsNull(premiumChg) THEN FInt(0)
                              ELSE Val(premiumChg).changePct,
         methodType |-> methodType,
         currentUltimate |-> getUltimate(cls, cohort, mth),
         maxClaimsBasedUltimate |-> getMaxClaimsBasedUltimate(cls, cohort)]

DecisionRow(cls, mth, sel, cohort, data, inFO, methodType, resDetLabel, pqLabel) ==
    LET aeRatio == AeRatio(data)
        currentUlt == getUltimate(cls, cohort, mth)
        priorUlt == getPriorUltimate(cls, cohort, mth)
        opts == DecisionOpts(cls, mth, cohort, data, inFO, methodType)
        dag == runDecisionDAG(cls, cohort, opts)
    IN  [cohort |-> cohort,
         aeRatio |-> aeRatio,
         ultChgPct |-> IF ~IsNull(priorUlt) /\ Val(priorUlt) # 0
                          /\ ~IsNull(currentUlt)
                       THEN Some(Frac(Val(currentUlt) - Val(priorUlt),
                                      Val(priorUlt)))
                       ELSE NULL,
         resDet |-> resDetLabel,
         pq |-> pqLabel,
         inFO |-> inFO,
         methodType |-> methodType,
         driver |-> dag.driver,
         suggestion |-> dag.suggestion,
         aeClass |-> IF FGt(aeRatio, DAG_AE_THRESHOLD) THEN "dec-ae-adverse"
                     ELSE IF FLt(aeRatio, <<-1, 20>>) THEN "dec-ae-favourable"
                     ELSE "",
         dimmed |-> FLe(FAbs(aeRatio), DAG_AE_THRESHOLD),
         selected |-> sel = Some(cohort)]

\* Cohorts flagged in both the percent-of-ultimate and the percent-of-year-1
\* series.
BothFanning(cls, mth) ==
    LET grouped == getGroupedData(cls)
        chrono == SortedKeys(grouped)
        pctFanning == detectFanningCohorts(buildPctSeries(grouped, chrono, cls, mth))
        normFanning == detectFanningCohorts(buildNormSeries(grouped, chrono))
    IN  SelectSeq(pctFanning, LAMBDA c : Includes(normFanning, c))

\* A variant that shows rows only for a method that passes the threshold.
renderDecisionTable_PassingOnly(cls, mth, sel, old) ==
    IF IsNull(cls) \/ IsNull(mth) THEN old
    ELSE LET c == Val(cls)
             m == Val(mth)
             grouped == getGroupedData(c)
             cohorts == getCohortsMostRecentFirst(grouped)
             bothFanning == BothFanning(c, m)
             methodScores == getMethodScoresRow(c, m)
             resDetLabel == bucketResDet(IF IsNull(methodScores) THEN NULL
                                         ELSE Some(Val(methodScores).Reserve_Det))
             pqLabel == bucketPQ(IF IsNull(methodScores) THEN NULL
                                 ELSE Some(Val(methodScores).Proj_Quality))
             methodType == IF IsNull(getMethodType(m)) THEN "-"
                           ELSE Val(getMethodType(m))
             shown == SelectSeq(cohorts,
                          LAMBDA k : /\ HasDecisionRow(grouped[k])
                                     /\ Includes(getPassingMethods(c), m))
         IN  [title |-> cls,
              rows |-> [i \in 1..Len(shown) |->
                          DecisionRow(c, m, sel, shown[i], grouped[shown[i]],
                                      Includes(bothFanning, shown[i]),
                                      methodType, resDetLabel, pqLabel)]]

\* renderDecisionTable(): the table is left as it is (old) without a class
\* or a method.
renderDecisionTable(cls, mth, sel, old) ==
    IF IsNull(cls) \/ IsNull(mth) THEN old
    ELSE LET c == Val(cls)
             m == Val(mth)
             grouped == getGroupedData(c)
             cohorts == getCohortsMostRecentFirst(grouped)
             bothFanning == BothFanning(c, m)
             methodScores == getMethodScoresRow(c, m)
             resDetLabel == bucketResDet(IF IsNull(methodScores) THEN NULL
                                         ELSE Some(Val(methodScores).Reserve_Det))
             pqLabel == bucketPQ(IF IsNull(methodScores) THEN NULL
                                 ELSE Some(Val(methodScores).Proj_Quality))
             methodType == IF IsNull(getMethodType(m)) THEN "-"
                           ELSE Val(getMethodType(m))
             shown == SelectSeq(cohorts, LAMBDA k : HasDecisionRow(grouped[k]))
         IN  [title |-> cls,
              rows |-> [i \in 1..Len(shown) |->
                          DecisionRow(c, m, sel, shown[i], grouped[shown[i]],
                                      Includes(bothFanning, shown[i]),
                                      methodType, resDetLabel, pqLabel)]]

(* ------------------------------------------------------------------ *)
(* Claims table and LHS chart                                         *)
(* ------------------------------------------------------------------ *)
\* renderClaimsTable(): the claims shown and, with a cohort selected, its
\* attribution summary.
renderClaimsTable(cls, sel, old) ==
    IF IsNull(cls) THEN old
    ELSE [class |-> cls,
          cohort |-> sel,
          count |-> Len(SelectSeq(OrEmpty("claims"),
                        LAMBDA c : c.Class = Val(cls)
                                   /\ (IsNull(sel) \/ c.Cohort = Val(sel)))),
          attr |-> IF IsNull(sel) THEN NULL
                   ELSE Some(getAEAttribution(Val(cls), Val(sel)))]

\* The rows collected by renderComparisonChart(): one for each cohort with
\* an Actual point, most recent first.
ComparisonRows(cls, mth, grouped, passingMethods) ==
    LET shown == SelectSeq(getCohortsMostRecentFirst(grouped),
                           LAMBDA k : Len(grouped[k].Actual) # 0)
    IN  [i \in 1..Len(shown) |->
            LET data == grouped[shown[i]]
            IN  [cohort |-> shown[i],
                 actual |-> data.Actual[Len(data.Actual)].val,
                 lastDP |-> data.Actual[Len(data.Actual)].dp,
                 e2u |-> E2U(data),
                 selUlt |-> IF IsNull(mth) THEN NULL
                            ELSE getUltimate(cls, shown[i], Val(mth)),
                 band |-> getUltimateBand(cls, shown[i], passingMethods)]]

\* renderLHSChart(): the flight-path chart or the comparison chart.  Of
\* either, the cohorts that get traces (those with an Actual point), the
\* ultimate band drawn for each of them that has one, and the cohort that
\* is highlighted; of the comparison chart, its rows.
renderLHSChart(mode, cls, mth, sel, threshold, old) ==
    IF IsNull(cls) THEN old
    ELSE LET grouped == getGroupedData(Val(cls))
             passingMethods == PassingMethodsAt(Val(cls), threshold)
             Band(k) == getUltimateBand(Val(cls), k, passingMethods)
             drawn == {k \in DOMAIN grouped :
                          Len(grouped[k].Actual) # 0 /\ ~IsNull(Band(k))}
         IN  [class |-> cls,
              view |-> mode,
              highlight |-> sel,
              traced |-> {k \in DOMAIN grouped : Len(grouped[k].Actual) # 0},
              bands |-> [k \in drawn |-> Val(Band(k))],
              rows |-> IF mode = "comparison"
                       THEN ComparisonRows(Val(cls), mth, grouped,
                                           passingMethods)
                       ELSE <<>>]

\* renderPctChart(): the percent-of-ultimate series of the class and method
\* and the cohorts detected as fanning in it.
renderPctChart(cls, mth, old) ==
    IF IsNull(cls) \/ IsNull(mth) THEN old
    ELSE LET grouped == getGroupedData(Val(cls))
             cohorts == SortedKeys(grouped)
             pctSeries == buildPctSeries(grouped, cohorts, Val(cls), Val(mth))
         IN  [class |-> cls, method |-> mth, series |-> pctSeries,
              fanning |-> detectFanningCohorts(pctSeries)]

\* renderNormChart(): the percent-of-year-1 series of the class and the
\* cohorts detected as fanning in it.
renderNormChart(cls, old) ==
    IF IsNull(cls) THEN old
    ELSE LET grouped == getGroupedData(Val(cls))
             cohorts == SortedKeys(grouped)
             normSeries == buildNormSeries(grouped, cohorts)
         IN  [class |-> cls, series |-> normSeries,
              fanning |-> detectFanningCohorts(normSeries)]

\* One pass of the loop of getMethodAEAndUltChange over the cohorts.
RECURSIVE AEUltLoop(_, _, _, _, _)
AEUltLoop(cohorts, grouped, className, method, acc) ==
    IF cohorts = <<>> THEN acc
    ELSE LET data == grouped[Head(cohorts)]
             rest == Tail(cohorts)
         IN  IF Len(data.Actual) = 0
             THEN AEUltLoop(rest, grouped, className, method, acc)
             ELSE LET e2u == E2U(data)
                      counted == /\ ~IsNull(e2u) /\ Val(e2u) # 0
                                 /\ ~FIsZero(ExpectedAtDP(data))
                      cur == getUltimate(className, Head(cohorts), method)
                      pri == getPriorUltimate(className, Head(cohorts), method)
                      both == ~IsNull(cur) /\ ~IsNull(pri) /\ Val(pri) # 0
                  IN  AEUltLoop(rest, grouped, className, method,
                        [totalA |-> IF counted
                                    THEN acc.totalA + LastPoint(data).val
                                    ELSE acc.totalA,
                         totalE |-> IF counted
                                    THEN FAdd(acc.totalE, ExpectedAtDP(data))
                                    ELSE acc.totalE,
                         totalCurUlt |-> IF both THEN acc.totalCurUlt + Val(cur)
                                         ELSE acc.totalCurUlt,
                         totalPriUlt |-> IF both THEN acc.totalPriUlt + Val(pri)
                                         ELSE acc.totalPriUlt])

\* A variant that counts a cohort in the A-vs-E totals only when the method
\* has an ultimate for it.
getMethodAEAndUltChange_PerMethod(className, method) ==
    LET grouped == getGroupedData(className)
        withUlt == SelectSeq(SortedKeys(grouped),
                       LAMBDA c : ~IsNull(getUltimate(className, c, method)))
        acc == AEUltLoop(withUlt, grouped, className, method,
                   [totalA |-> 0, totalE |-> FInt(0),
                    totalCurUlt |-> 0, totalPriUlt |-> 0])
    IN  [aeRatio |-> IF ~FIsZero(acc.totalE)
                     THEN Some(FDiv(FSub(FInt(acc.totalA), acc.totalE), acc.totalE))
                     ELSE NULL,
         ultChg |-> IF acc.totalPriUlt # 0
                    THEN Some(Frac(acc.totalCurUlt - acc.totalPriUlt,
                                   acc.totalPriUlt))
                    ELSE NULL]

\* getMethodAEAndUltChange: the A-vs-E ratio of the class over its cohorts
\* and the change of the method's ultimates against the prior ones.
getMethodAEAndUltChange(className, method) ==
    LET grouped == getGroupedData(className)
        acc == AEUltLoop(SortedKeys(grouped), grouped, className, method,
                   [totalA |-> 0, totalE |-> FInt(0),
                    totalCurUlt |-> 0, totalPriUlt |-> 0])
    IN  [aeRatio |-> IF ~FIsZero(acc.totalE)
                     THEN Some(FDiv(FSub(FInt(acc.totalA), acc.totalE), acc.totalE))
                     ELSE NULL,
         ultChg |-> IF acc.totalPriUlt # 0
                    THEN Some(Frac(acc.totalCurUlt - acc.totalPriUlt,
                                   acc.totalPriUlt))
                    ELSE NULL]

\* renderScoresTable(): a row for each scored method of the class with its
\* total ultimate, A-vs-E ratio and ultimate change (the order of the rows
\* follows the sort column and is left out).
renderScoresTable(cls, old) ==
    IF IsNull(cls) THEN old
    ELSE [class |-> cls,
          rows |-> {[method |-> sc.Method,
                     totalUlt |-> getTotalUltimate(Val(cls), sc.Method),
                     aeRatio |-> getMethodAEAndUltChange(Val(cls), sc.Method).aeRatio,
                     ultChg |-> getMethodAEAndUltChange(Val(cls), sc.Method).ultChg] :
                    sc \in {x \in Range(OrEmpty("method_scores")) :
                               x.Class = Val(cls)}}]

\* updateMethodsCount(): the number of passing methods in the badge.
updateMethodsCount(cls, threshold) ==
    IF IsNull(cls) THEN 0 ELSE Len(PassingMethodsAt(Val(cls), threshold))


(* ------------------------------------------------------------------ *)
(* Datasets                                                           *)
(* ------------------------------------------------------------------ *)
MkRecord(cls, cohort, dp, type, val) ==
    [Class |-> cls, Cohort |-> cohort, Development_Period |-> dp,
     Type |-> type, Value |-> val]

MkUltimate(cls, cohort, method, val, mtype) ==
    [Class |-> cls, Cohort |-> cohort, Method |-> method, Ultimate |-> val,
     Method_Type |-> mtype]

MkPrior(cls, cohort, method, val) ==
    [Class |-> cls, Cohort |-> cohort, Method |-> method, Ultimate |-> val]

MkScore(cls, method, resDet, projQuality) ==
    [Class |-> cls, Method |-> method, Reserve_Det |-> resDet,
     Proj_Quality |-> projQuality]

MkClaim(cls, cohort, cur, prior) ==
    [Class |-> cls, Cohort |-> cohort, Incurred_Current |-> cur,
     Incurred_Prior |-> prior]

MkPremium(cls, cohort, earned, prior) ==
    [Class |-> cls, Cohort |-> cohort, Earned |-> earned, Prior_Earned |-> prior]

MkCount(cls, cohort, cur, prior) ==
    [Class |-> cls, Cohort |-> cohort, Count_Current |-> cur, Count_Prior |-> prior]

MethodTypeOf(method) == IF method = "CL" THEN "Claims-based" ELSE "Premium-based"

\* Records of one cohort from a list of <<dp, val>> Actual points and a
\* list of <<dp, val>> Expected points.
CohortRecords(cls, cohort, actual, expected) ==
    [i \in 1..Len(actual) |->
        MkRecord(cls, cohort, actual[i][1], "Actual", actual[i][2])]
    \o [i \in 1..Len(expected) |->
        MkRecord(cls, cohort, expected[i][1], "Expected", expected[i][2])]

\* Ultimates of one cohort from a list of <<method, val>>.
CohortUltimates(cls, cohort, ults) ==
    [i \in 1..Len(ults) |->
        MkUltimate(cls, cohort, ults[i][1], ults[i][2], MethodTypeOf(ults[i][1]))]

\* The part of every dataset that is not drawn: two older and younger
\* cohorts of Motor around the drawn cohort 2022Q1, and the class Property.
BaseRecords ==
    CohortRecords("Motor", "2023Q1", <<<<4, 50>>>>, <<<<0, 100>>>>)
    \o CohortRecords("Motor", "2021Q1", <<<<8, 60>>, <<4, 50>>>>, <<<<0, 70>>>>)
    \o CohortRecords("Property", "2022Q1", <<<<3, 49>>, <<6, 110>>>>, <<<<0, 150>>>>)
    \o CohortRecords("Property", "2023Q1", <<>>, <<<<0, 120>>>>)

BaseUltimates ==
    CohortUltimates("Motor", "2021Q1", <<<<"CL", 100>>, <<"BF", 100>>>>)
    \o CohortUltimates("Motor", "2023Q1", <<<<"BF", 100>>, <<"CL", 100>>>>)
    \o CohortUltimates("Property", "2022Q1", <<<<"CL", 140>>, <<"BF", 160>>>>)
    \o CohortUltimates("Property", "2023Q1", <<<<"BF", 130>>>>)

BasePriors ==
    << MkPrior("Motor", "2021Q1", "CL", 100), MkPrior("Motor", "2022Q1", "CL", 80),
       MkPrior("Motor", "2022Q1", "BF", 0), MkPrior("Property", "2022Q1", "CL", 150) >>

BaseScores ==
    << MkScore("Motor", "CL", 80, 90), MkScore("Motor", "BF", 50, 60),
       MkScore("Property", "BF", 30, 40), MkScore("Property", "CL", 45, 70) >>

BaseClaims ==
    << MkClaim("Property", "2022Q1", 200000, 100000),
       MkClaim("Property", "2022Q1", 500, 200) >>

\* A dataset with cohort 2022Q1 of Motor drawn: its Actual and Expected
\* points, its ultimates, claims, premium rows and claim-count rows.
Dataset(actual, expected, ults, claims, premiums, counts) ==
    [classes |-> <<"Motor", "Property">>,
     methods |-> <<"CL", "BF">>,
     records |-> CohortRecords("Motor", "2022Q1", actual, expected) \o BaseRecords,
     ultimates |-> CohortUltimates("Motor", "2022Q1", ults) \o BaseUltimates,
     prior_ultimates |-> BasePriors,
     method_scores |-> BaseScores,
     claims |-> [i \in 1..Len(claims) |->
                    MkClaim("Motor", "2022Q1", claims[i][1], claims[i][2])]
                \o BaseClaims,
     large_loss_thresholds |-> [c \in {"Motor"} |-> 100],
     premiums |-> [i \in 1..Len(premiums) |->
                    MkPremium("Motor", "2022Q1", premiums[i][1], premiums[i][2])],
     cohort_claim_counts |-> [i \in 1..Len(counts) |->
                    MkCount("Motor", "2022Q1", counts[i][1], counts[i][2])]]

\* Choices for the drawn cohort: <<Actual points, Expected points>> in
\* record order.  With f(8) = 8/9 and f(6) = 3/4 the expected amounts at
\* the last period are 40, 80, 160 (e2u 45, 90, 180) and 112.5 (e2u 150).
\* At the exact 5% boundary (84 or 76 against 80) a double may fall on either
\* side; the fractions here fall on it.
SeriesChoices ==
    { << <<<<4, 50>>, <<8, 60>>>>, <<<<0, 90>>>> >>,
      << <<<<4, 50>>, <<8, 60>>>>, <<<<0, 45>>>> >>,
      << <<<<8, 80>>, <<4, 50>>>>, <<<<0, 90>>>> >>,
      << <<<<8, 80>>, <<4, 50>>>>, <<<<0, 45>>>> >>,
      << <<<<8, 80>>, <<4, 50>>>>, <<<<0, 180>>>> >>,
      << <<<<8, 80>>, <<4, 50>>>>, <<<<4, 20>>, <<0, 90>>>> >>,
      << <<<<4, 50>>, <<8, 84>>>>, <<<<0, 90>>>> >>,
      << <<<<4, 50>>, <<8, 76>>>>, <<<<0, 90>>>> >>,
      << <<<<4, 50>>, <<8, 85>>>>, <<<<0, 90>>>> >>,
      << <<<<4, 50>>, <<12, 95>>>>, <<<<0, 90>>>> >>,
      << <<<<6, 110>>>>, <<<<0, 150>>>> >>,
      << <<<<6, 110>>>>, <<<<0, 45>>>> >>,
      << <<<<0, 10>>>>, <<<<0, 90>>>> >>,
      << <<>>, <<<<0, 90>>>> >>,
      << <<<<8, 80>>, <<4, 50>>>>, <<>> >>,
      << <<<<8, 80>>, <<4, 50>>>>, <<<<0, 0>>>> >> }
UltimateChoices ==
    { <<<<"CL", 100>>, <<"BF", 100>>>>, <<<<"CL", 200>>, <<"BF", 100>>>>,
      <<<<"BF", 100>>>>, <<<<"CL", 100>>>>, <<<<"CL", 50>>, <<"BF", 100>>>> }
ClaimChoices ==
    { <<>>, <<<<100, 70>>, <<50, 20>>>>, <<<<100, 90>>, <<50, 20>>>>,
      <<<<100, 130>>, <<50, 60>>>> }
PremiumChoices == { <<>>, <<<<110, 100>>>>, <<<<105, 100>>>> }
CountChoices == { <<>>, <<<<120, 100>>>>, <<<<115, 100>>>>, <<<<110, 100>>>> }

SliderValues == {0, 50, 70, 100}

(* ------------------------------------------------------------------ *)
(* Boot: initDashboard() with the dataset loaded                      *)
(* ------------------------------------------------------------------ *)
EmptyDecisionTable == [title |-> NULL, rows |-> <<>>]
EmptyClaimsTable == [class |-> NULL, cohort |-> NULL, count |-> 0, attr |-> NULL]
EmptyLHSChart ==
    [class |-> NULL, view |-> "none", highlight |-> NULL, traced |-> {},
     bands |-> <<>>, rows |-> <<>>]
EmptyPctChart == [class |-> NULL, method |-> NULL, series |-> <<>>, fanning |-> <<>>]
EmptyNormChart == [class |-> NULL, series |-> <<>>, fanning |-> <<>>]
EmptyScoresTable == [class |-> NULL, rows |-> {}]

\* classes[0] || null
FirstOrNull(s) == IF Len(s) = 0 THEN NULL ELSE Some(s[1])

\* The state when the dataset has been fetched and parsed (phase
\* "loaded"): the globals still hold their initial values and nothing is
\* rendered.
\* What fetch() gives: a rejection, or a response with its ok flag, its
\* statusText and a body that parses as JSON or does not.
MkResponse(rejected, ok, statusText, json) ==
    [rejected |-> rejected, ok |-> ok, statusText |-> statusText, json |-> json]

OkResponse == MkResponse(FALSE, TRUE, "OK", TRUE)

Responses ==
    { OkResponse,
      MkResponse(TRUE, FALSE, "", FALSE),
      MkResponse(FALSE, FALSE, "Not Found", FALSE),
      MkResponse(FALSE, FALSE, "Internal Server Error", TRUE),
      MkResponse(FALSE, TRUE, "OK", FALSE) }

PageLoaded ==
    /\ currentClass = NULL
    /\ currentMethod = NULL
    /\ selectedCohort = NULL
    /\ qualityThreshold = 0
    /\ rhsPanelView = "charts"
    /\ chartViewMode = "flight-path"
    /\ failure = NULL
    /\ lhsChart = EmptyLHSChart
    /\ pctChart = EmptyPctChart
    /\ normChart = EmptyNormChart
    /\ claimsTable = EmptyClaimsTable
    /\ decisionTable = EmptyDecisionTable
    /\ methodsCount = 0
    /\ scoresTable = EmptyScoresTable

Loaded(data) ==
    /\ phase = "loaded"
    /\ response = OkResponse
    /\ dashboardData = data
    /\ PageLoaded

MainDatasets ==
    { Dataset(se[1], se[2], u, <<<<100, 70>>, <<50, 20>>>>, <<>>, <<<<110, 100>>>>) :
        se \in { << <<<<8, 80>>, <<4, 50>>>>, <<<<0, 45>>>> >>,
                 << <<<<6, 110>>>>, <<<<0, 150>>>> >> },
        u \in { <<<<"CL", 200>>, <<"BF", 100>>>>, <<<<"CL", 100>>>> } }

Init == \E data \in MainDatasets : Loaded(data)

\* Every combination of the choices for the drawn cohort.
InitDAG ==
    \E se \in SeriesChoices, u \in UltimateChoices, k \in ClaimChoices,
       p \in PremiumChoices, c \in CountChoices :
        Loaded(Dataset(se[1], se[2], u, k, p, c))

(* ------------------------------------------------------------------ *)
(* Event handlers                                                     *)
(* ------------------------------------------------------------------ *)
\* renderAll() for the views that are modelled.
RenderAll ==
    /\ lhsChart' = renderLHSChart(chartViewMode', currentClass', currentMethod',
                                  selectedCohort',
                                  qualityThreshold', lhsChart)
    /\ pctChart' = renderPctChart(currentClass', currentMethod', pctChart)
    /\ normChart' = renderNormChart(currentClass', normChart)
    /\ claimsTable' = renderClaimsTable(currentClass', selectedCohort', claimsTable)
    /\ decisionTable' = renderDecisionTable(currentClass', currentMethod',
                                            selectedCohort', decisionTable)
    /\ methodsCount' = updateMethodsCount(currentClass', qualityThreshold')
    /\ scoresTable' = renderScoresTable(currentClass', scoresTable)

\* The page before initDashboard() has fetched the dataset.
InitBoot ==
    /\ phase = "start"
    /\ response \in Responses
    /\ dashboardData = NULL
    /\ PageLoaded

\* A variant without the check of res.ok.
ThrownBeforeData_NoOkCheck(res) ==
    IF res.rejected THEN Some("Failed to fetch")
    ELSE IF ~res.json THEN Some("Unexpected token < in JSON at position 0")
    ELSE NULL

\* err.message of what the try block throws before dashboardData is
\* assigned: fetch() rejects, 'throw new Error(res.statusText)' when the
\* response is not OK, or res.json() rejects; NULL when nothing is thrown.
ThrownBeforeData(res) ==
    IF res.rejected THEN Some("Failed to fetch")
    ELSE IF ~res.ok THEN Some(res.statusText)
    ELSE IF ~res.json THEN Some("Unexpected token < in JSON at position 0")
    ELSE NULL

\* The first part of initDashboard(): the fetch and the parse of the
\* dataset, or the catch block showing err.message in the main area.
Fetch ==
    /\ phase = "start"
    /\ IF IsNull(ThrownBeforeData(response))
       THEN \E data \in MainDatasets :
              /\ phase' = "loaded"
              /\ dashboardData' = data
              /\ failure' = failure
       ELSE /\ phase' = "failed"
            /\ failure' = ThrownBeforeData(response)
            /\ dashboardData' = dashboardData
    /\ UNCHANGED <<response, currentClass, currentMethod, selectedCohort,
                   qualityThreshold, rhsPanelView, chartViewMode, decisionTable,
                   claimsTable, lhsChart, pctChart, normChart, methodsCount, scoresTable>>

\* The rest of initDashboard(): the selectors take the first class and the
\* first method, the handlers are registered, renderAll() runs.
InitDashboard ==
    /\ phase = "loaded"
    /\ phase' = "ready"
    /\ currentClass' = FirstOrNull(OrEmpty("classes"))
    /\ currentMethod' = FirstOrNull(OrEmpty("methods"))
    /\ UNCHANGED <<response, failure, dashboardData, chartViewMode, selectedCohort, qualityThreshold,
                   rhsPanelView>>
    /\ RenderAll

\* A variant that keeps the selected cohort.
ClassChange_KeepsCohort ==
    \E cls \in Range(OrEmpty("classes")) :
        /\ phase = "ready"
        /\ Some(cls) # currentClass
        /\ currentClass' = Some(cls)
        /\ UNCHANGED <<phase, response, failure, dashboardData, chartViewMode,
                       currentMethod, qualityThreshold, rhsPanelView,
                       selectedCohort>>
        /\ RenderAll

\* 'change' on the class selector.
ClassChange ==
    \E cls \in Range(OrEmpty("classes")) :
        /\ phase = "ready"
        /\ Some(cls) # currentClass
        /\ currentClass' = Some(cls)
        /\ selectedCohort' = NULL
        /\ UNCHANGED <<phase, response, failure, dashboardData, chartViewMode, currentMethod, qualityThreshold, rhsPanelView>>
        /\ RenderAll

\* A variant that leaves the decision table as it was.
MethodRenders_NoDecisionTable ==
    /\ lhsChart' = renderLHSChart(chartViewMode, currentClass, currentMethod',
                                  selectedCohort,
                                  qualityThreshold, lhsChart)
    /\ pctChart' = renderPctChart(currentClass, currentMethod', pctChart)
    /\ UNCHANGED <<phase, response, failure, dashboardData, chartViewMode, currentClass, selectedCohort, qualityThreshold,
                   rhsPanelView, claimsTable, normChart, methodsCount, scoresTable, decisionTable>>

\* The renders shared by the method selector and selectMethod().
MethodRenders ==
    /\ lhsChart' = renderLHSChart(chartViewMode, currentClass, currentMethod',
                                  selectedCohort,
                                  qualityThreshold, lhsChart)
    /\ pctChart' = renderPctChart(currentClass, currentMethod', pctChart)
    /\ decisionTable' = renderDecisionTable(currentClass, currentMethod',
                                            selectedCohort, decisionTable)
    /\ UNCHANGED <<phase, response, failure, dashboardData, chartViewMode, currentClass, selectedCohort, qualityThreshold,
                   rhsPanelView, claimsTable, normChart, methodsCount, scoresTable>>

\* 'change' on the method selector.
MethodChange ==
    \E m \in Range(OrEmpty("methods")) :
        /\ phase = "ready"
        /\ Some(m) # currentMethod
        /\ currentMethod' = Some(m)
        /\ MethodRenders

\* selectMethod(methodKey): a click on a row of the scores table, which
\* lists the scored methods of the current class.
SelectMethod ==
    \E s \in Range(OrEmpty("method_scores")) :
        /\ phase = "ready"
        /\ Some(s.Class) = currentClass
        /\ currentMethod' = Some(s.Method)
        /\ MethodRenders

\* 'input' on the quality slider.
SliderInput ==
    \E v \in SliderValues :
        /\ phase = "ready"
        /\ v # qualityThreshold
        /\ qualityThreshold' = v
        /\ UNCHANGED <<phase, response, failure, dashboardData, chartViewMode, currentClass, currentMethod, selectedCohort,
                       rhsPanelView>>
        /\ RenderAll

\* selectCohort(cohort): toggle the selection, show the claims panel when
\* selecting, re-render the claims table and the LHS chart.
SelectCohortEffect(cohort) ==
    /\ selectedCohort' = IF selectedCohort = Some(cohort) THEN NULL ELSE Some(cohort)
    /\ claimsTable' = renderClaimsTable(currentClass, selectedCohort', claimsTable)
    /\ lhsChart' = renderLHSChart(chartViewMode, currentClass, currentMethod,
                                  selectedCohort',
                                  qualityThreshold, lhsChart)

\* A variant that shows the claims panel on a deselection too.
ChartClick_AlwaysShowsClaims ==
    \E cohort \in lhsChart.traced :
        /\ phase = "ready"
        /\ SelectCohortEffect(cohort)
        /\ rhsPanelView' = "claims"
        /\ UNCHANGED <<phase, response, failure, dashboardData, chartViewMode,
                       currentClass, currentMethod, qualityThreshold,
                       decisionTable, pctChart, normChart, methodsCount, scoresTable>>

\* plotly_click on a trace of the LHS chart.
ChartClick ==
    \E cohort \in lhsChart.traced :
        /\ phase = "ready"
        /\ SelectCohortEffect(cohort)
        /\ rhsPanelView' = IF selectedCohort = Some(cohort) THEN rhsPanelView
                           ELSE "claims"
        /\ UNCHANGED <<phase, response, failure, dashboardData, chartViewMode, currentClass, currentMethod, qualityThreshold,
                       decisionTable, pctChart, normChart, methodsCount, scoresTable>>

\* Click on a row of the decision table.
DecisionRowClick ==
    \E i \in 1..Len(decisionTable.rows) :
        /\ phase = "ready"
        /\ SelectCohortEffect(decisionTable.rows[i].cohort)
        /\ rhsPanelView' = "claims"
        /\ decisionTable' = renderDecisionTable(currentClass, currentMethod,
                                                selectedCohort', decisionTable)
        /\ UNCHANGED <<phase, response, failure, dashboardData, chartViewMode, currentClass, currentMethod, qualityThreshold,
                       pctChart, normChart, methodsCount, scoresTable>>

\* Click on the clear button of the claims table, shown with a cohort.
ClaimsClear ==
    /\ phase = "ready"
    /\ ~IsNull(claimsTable.cohort)
    /\ selectedCohort' = NULL
    /\ claimsTable' = renderClaimsTable(currentClass, NULL, claimsTable)
    /\ lhsChart' = renderLHSChart(chartViewMode, currentClass, currentMethod, NULL,
                                  qualityThreshold, lhsChart)
    /\ decisionTable' = renderDecisionTable(currentClass, currentMethod, NULL,
                                            decisionTable)
    /\ UNCHANGED <<phase, response, failure, dashboardData, chartViewMode, currentClass, currentMethod, qualityThreshold,
                   rhsPanelView, pctChart, normChart, methodsCount, scoresTable>>

\* Click on a button of the view toggle.
ViewToggle ==
    \E view \in {"flight-path", "comparison"} :
        /\ phase = "ready"
        /\ view # chartViewMode
        /\ chartViewMode' = view
        /\ lhsChart' = renderLHSChart(view, currentClass, currentMethod, selectedCohort,
                                      qualityThreshold, lhsChart)
        /\ UNCHANGED <<phase, response, failure, dashboardData, currentClass, currentMethod,
                       selectedCohort, qualityThreshold, rhsPanelView,
                       decisionTable, claimsTable, pctChart, normChart,
                       methodsCount, scoresTable>>

\* Click on a button of the RHS panel navigation.
RHSPanelToggle ==
    \E panel \in {"charts", "claims"} :
        /\ phase = "ready"
        /\ panel # rhsPanelView
        /\ rhsPanelView' = panel
        /\ claimsTable' = IF panel = "claims"
                          THEN renderClaimsTable(currentClass, selectedCohort,
                                                 claimsTable)
                          ELSE claimsTable
        /\ pctChart' = IF panel = "charts"
                       THEN renderPctChart(currentClass, currentMethod, pctChart)
                       ELSE pctChart
        /\ normChart' = IF panel = "charts"
                        THEN renderNormChart(currentClass, normChart)
                        ELSE normChart
        /\ UNCHANGED <<phase, response, failure, dashboardData, chartViewMode, currentClass, currentMethod, selectedCohort,
                       qualityThreshold, decisionTable, lhsChart, methodsCount, scoresTable>>

Next ==
    \/ InitDashboard
    \/ ClassChange
    \/ MethodChange
    \/ SelectMethod
    \/ SliderInput
    \/ ChartClick
    \/ DecisionRowClick
    \/ ClaimsClear
    \/ RHSPanelToggle
    \/ ViewToggle

Spec == Init /\ [][Next]_vars

\* The page from the start of initDashboard().
NextBoot ==
    \/ Fetch
    \/ Next

SpecBoot == InitBoot /\ [][NextBoot]_vars

\* selectCohort() called by the chart click alone, for every threshold and
\* method and with either panel and either chart showing.
NextSelect ==
    \/ InitDashboard
    \/ ChartClick
    \/ RHSPanelToggle
    \/ ViewToggle
    \/ SliderInput
    \/ MethodChange

SpecSelect == Init /\ [][NextSelect]_vars

\* The decision table over every drawn dataset and both methods.
NextDAG ==
    \/ InitDashboard
    \/ MethodChange
    \/ SelectMethod

SpecDAG == InitDAG /\ [][NextDAG]_vars

\* The dataset the families below vary one table of.
BaseDataset ==
    Dataset(<<<<8, 80>>, <<4, 50>>>>, <<<<0, 45>>>>, <<<<"CL", 200>>, <<"BF", 100>>>>,
            <<>>, <<>>, <<>>)

\* All lists of at most n elements of S.
SeqsUpTo(S, n) == UNION {[1..k -> S] : k \in 0..n}

\* Claims tables: lists of at most MaxClaims claims.  For Motor with the
\* threshold 100: a claim exactly at the threshold, one above it whose
\* movement cancels the first, and two below it; a claim of another cohort;
\* a claim of Property exactly at the default threshold.
MaxClaims == 3
ClaimUniverse ==
    { MkClaim("Motor", "2022Q1", 100, 50), MkClaim("Motor", "2022Q1", 150, 200),
      MkClaim("Motor", "2022Q1", 99, 49), MkClaim("Motor", "2022Q1", 50, 100),
      MkClaim("Motor", "2021Q1", 100, 0),
      MkClaim("Property", "2022Q1", 100000, 99950) }
ThresholdMaps == { [c \in {"Motor"} |-> 100], [c \in {} |-> 0] }

InitAttr ==
    \E claims \in SeqsUpTo(ClaimUniverse, MaxClaims), th \in ThresholdMaps :
        Loaded([BaseDataset EXCEPT !.claims = claims,
                                   !.large_loss_thresholds = th])

\* Selecting a cohort renders its attribution in the claims table.
NextAttr ==
    \/ InitDashboard
    \/ DecisionRowClick
    \/ ClaimsClear

SpecAttr == InitAttr /\ [][NextAttr]_vars

\* Method scores and ultimates.  Score tables: both methods of Motor at
\* different qualities, a method scored twice, a class without scores.
\* Ultimates: lists of at most MaxUltimates entries, among them two of one
\* method, a method that has no score, another cohort and another class.
ScoreChoices ==
    { << MkScore("Motor", "CL", 80, 70), MkScore("Motor", "BF", 50, 50),
         MkScore("Property", "CL", 45, 100) >>,
      << MkScore("Motor", "BF", 50, 100), MkScore("Motor", "CL", 80, 40),
         MkScore("Property", "BF", 30, 40) >>,
      << MkScore("Motor", "CL", 80, 40), MkScore("Motor", "CL", 80, 70),
         MkScore("Property", "CL", 45, 50) >>,
      << MkScore("Motor", "CL", 80, 50), MkScore("Motor", "BF", 50, 50) >>,
      << MkScore("Property", "BF", 30, 70) >>,
      << >> }
MaxUltimates == 3
UltimateUniverse ==
    { MkUltimate("Motor", "2022Q1", "CL", 100, "Claims-based"),
      MkUltimate("Motor", "2022Q1", "BF", 200, "Premium-based"),
      MkUltimate("Motor", "2022Q1", "BF", 50, "Premium-based"),
      MkUltimate("Motor", "2021Q1", "CL", 400, "Claims-based"),
      MkUltimate("Property", "2022Q1", "CL", 10, "Claims-based") }

InitBand ==
    \E scores \in ScoreChoices, ults \in SeqsUpTo(UltimateUniverse, MaxUltimates) :
        Loaded([BaseDataset EXCEPT !.method_scores = scores,
                                   !.ultimates = ults])

\* The quality slider re-renders the bands of the LHS chart.
NextBand ==
    \/ InitDashboard
    \/ SliderInput

SpecBand == InitBand /\ [][NextBand]_vars

\* The bands with either method selected.
NextBandMethod ==
    \/ InitDashboard
    \/ SliderInput
    \/ MethodChange

SpecBandMethod == InitBand /\ [][NextBandMethod]_vars

\* Records tables: lists of at most MaxRecords records, among them points
\* of one cohort out of period order, two points at one period, an
\* Expected point, another cohort and another class.
MaxRecords == 3
RecordUniverse ==
    { MkRecord("Motor", "2022Q1", 8, "Actual", 80),
      MkRecord("Motor", "2022Q1", 4, "Actual", 50),
      MkRecord("Motor", "2022Q1", 4, "Actual", 55),
      MkRecord("Motor", "2022Q1", 0, "Expected", 90),
      MkRecord("Motor", "2021Q1", 4, "Actual", 50),
      MkRecord("Property", "2022Q1", 6, "Actual", 110),
      MkRecord("Property", "2023Q1", 0, "Expected", 120) }

InitGroup ==
    \E records \in SeqsUpTo(RecordUniverse, MaxRecords) :
        Loaded([BaseDataset EXCEPT !.records = records])

\* Every render of a class groups its records.
NextGroup ==
    \/ InitDashboard
    \/ ClassChange

SpecGroup == InitGroup /\ [][NextGroup]_vars

\* Current and prior ultimates: lists of at most MaxUltimates current
\* ultimates, among them a stored 0, two entries of one key, another
\* cohort, another method and another class; prior tables with a missing
\* entry, a stored 0 and entries of other keys.
UltimateZeroUniverse ==
    { MkUltimate("Motor", "2022Q1", "CL", 100, "Claims-based"),
      MkUltimate("Motor", "2022Q1", "CL", 0, "Claims-based"),
      MkUltimate("Motor", "2021Q1", "CL", 60, "Claims-based"),
      MkUltimate("Motor", "2022Q1", "BF", 200, "Premium-based"),
      MkUltimate("Property", "2022Q1", "CL", 10, "Claims-based") }
PriorChoices ==
    { << >>,
      << MkPrior("Motor", "2022Q1", "CL", 80) >>,
      << MkPrior("Motor", "2022Q1", "CL", 0), MkPrior("Motor", "2021Q1", "CL", 50) >>,
      << MkPrior("Motor", "2022Q1", "BF", 50), MkPrior("Motor", "2022Q1", "CL", 80),
         MkPrior("Motor", "2021Q1", "CL", 50), MkPrior("Property", "2022Q1", "CL", 5) >> }

InitUlt ==
    \E ults \in SeqsUpTo(UltimateZeroUniverse, MaxUltimates), priors \in PriorChoices :
        Loaded([BaseDataset EXCEPT !.ultimates = ults,
                                   !.prior_ultimates = priors])

\* The decision table reads the ultimates of the current method.
NextUlt ==
    \/ InitDashboard
    \/ MethodChange

SpecUlt == InitUlt /\ [][NextUlt]_vars

\* Development periods from below 0 to beyond MAX_DEV_PERIOD: the drawn
\* cohort has one Actual point at such a period.
DevPeriods == (0 - 2)..(MAX_DEV_PERIOD + 2)

InitDev ==
    \E dp \in DevPeriods, val \in {50, 100}, e2u \in {100, 150} :
        Loaded(Dataset(<<<<dp, val>>>>, <<<<0, e2u>>>>,
                       <<<<"CL", 200>>, <<"BF", 100>>>>, <<>>, <<>>, <<>>))

\* The decision table applies developmentFraction to the last period.
NextDev ==
    \/ InitDashboard
    \/ MethodChange

SpecDev == InitDev /\ [][NextDev]_vars

\* Development series of three cohorts of Motor, oldest first.  With the
\* CL ultimate 100 the percent-of-ultimate values are the Actual values
\* (half of them with the BF ultimate 200).  Against 60 at period 8 of an
\* older cohort: 75 is 15 above, 70 exactly 10 above, 71 just over 10;
\* <<4, 62>>, <<6, 80>> ends at a period no older cohort has; single
\* points and cohorts without Actual points.
FanOldest == { <<<<4, 50>>, <<8, 60>>>>, <<<<4, 50>>>>, <<>> }
FanMiddle ==
    { <<<<4, 50>>, <<8, 60>>>>, <<<<4, 50>>, <<8, 75>>>>, <<<<4, 50>>, <<8, 70>>>>,
      <<<<4, 65>>>>, <<>> }
FanNewest ==
    { <<<<4, 50>>, <<8, 60>>>>, <<<<4, 50>>, <<8, 80>>>>, <<<<4, 50>>, <<8, 71>>>>,
      <<<<4, 62>>, <<6, 80>>>>, <<<<4, 70>>>>, <<>> }

FanRecords(a, b, c) ==
    CohortRecords("Motor", "2021Q1", a, <<<<0, 100>>>>)
    \o CohortRecords("Motor", "2022Q1", b, <<<<0, 100>>>>)
    \o CohortRecords("Motor", "2023Q1", c, <<<<0, 100>>>>)

FanUltimates ==
    CohortUltimates("Motor", "2021Q1", <<<<"CL", 100>>, <<"BF", 200>>>>)
    \o CohortUltimates("Motor", "2022Q1", <<<<"CL", 100>>, <<"BF", 200>>>>)
    \o CohortUltimates("Motor", "2023Q1", <<<<"CL", 100>>, <<"BF", 200>>>>)

InitFan ==
    \E a \in FanOldest, b \in FanMiddle, c \in FanNewest :
        Loaded([BaseDataset EXCEPT !.records = FanRecords(a, b, c),
                                   !.ultimates = FanUltimates])

\* The two development charts are drawn by renderAll(), the
\* percent-of-ultimate chart again on a change of method.
NextFan ==
    \/ InitDashboard
    \/ MethodChange

SpecFan == InitFan /\ [][NextFan]_vars

\* Records tables for the percent-of-year-1 series: lists of at most
\* MaxRecords records, among them Actual points at the base period 4 with
\* the values 0 and 50, points at other periods, another cohort and an
\* Expected point at the base period.
NormUniverse ==
    { MkRecord("Motor", "2022Q1", 4, "Actual", 0),
      MkRecord("Motor", "2022Q1", 4, "Actual", 50),
      MkRecord("Motor", "2022Q1", 8, "Actual", 80),
      MkRecord("Motor", "2022Q1", 3, "Actual", 30),
      MkRecord("Motor", "2021Q1", 4, "Actual", 40),
      MkRecord("Motor", "2022Q1", 4, "Expected", 100) }

InitNorm ==
    \E records \in SeqsUpTo(NormUniverse, MaxRecords) :
        Loaded([BaseDataset EXCEPT !.records = records])

\* The percent-of-year-1 chart is drawn by renderAll().
NextNorm ==
    \/ InitDashboard
    \/ ClassChange

SpecNorm == InitNorm /\ [][NextNorm]_vars

\* Datasets with gaps: each of the eight collections is present, empty, or
\* absent from the dataset object.
GapCollections ==
    {"records", "ultimates", "prior_ultimates", "method_scores", "claims",
     "large_loss_thresholds", "premiums", "cohort_claim_counts"}

FullDataset ==
    Dataset(<<<<8, 80>>, <<4, 50>>>>, <<<<0, 45>>>>, <<<<"CL", 200>>, <<"BF", 100>>>>,
            <<<<100, 70>>>>, <<<<110, 100>>>>, <<<<12, 10>>>>)

WithGaps(data, absent, empty) ==
    [name \in (DOMAIN data) \ absent |->
        IF name \in empty THEN <<>> ELSE data[name]]

InitGaps ==
    \E absent \in SUBSET GapCollections :
        \E empty \in SUBSET (GapCollections \ absent) :
            Loaded(WithGaps(FullDataset, absent, empty))

\* renderAll() and the method handler run every core derivation.
NextGaps ==
    \/ InitDashboard
    \/ MethodChange

SpecGaps == InitGaps /\ [][NextGaps]_vars

\* Premium and claim-count tables: lists of at most MaxGrowthRows rows,
\* among them rows of the drawn cohort with a prior of 0, with growth
\* above, at and below the thresholds (10% and 15%), and a row of another
\* cohort.  The drawn cohort is 100% above its expected amount.
MaxGrowthRows == 2
PremiumUniverse ==
    { MkPremium("Motor", "2022Q1", 110, 100), MkPremium("Motor", "2022Q1", 120, 0),
      MkPremium("Motor", "2022Q1", 105, 100), MkPremium("Motor", "2021Q1", 200, 100) }
CountUniverse ==
    { MkCount("Motor", "2022Q1", 115, 100), MkCount("Motor", "2022Q1", 5, 0),
      MkCount("Motor", "2022Q1", 110, 100), MkCount("Motor", "2021Q1", 300, 100) }

InitGrowth ==
    \E premiums \in SeqsUpTo(PremiumUniverse, MaxGrowthRows),
       counts \in SeqsUpTo(CountUniverse, MaxGrowthRows) :
        Loaded([BaseDataset EXCEPT !.premiums = premiums,
                                   !.cohort_claim_counts = counts])

\* renderDecisionTable() builds the inputs of the decision engine.
NextGrowth ==
    \/ InitDashboard
    \/ MethodChange

SpecGrowth == InitGrowth /\ [][NextGrowth]_vars

\* Datasets for the A-vs-E totals of a class.  The records of cohort
\* 2022Q1 are lists of at most MaxRecords records, among them a last Actual
\* point at period 0 (where the expected amount is 0) and an E2U of 0, so
\* that the cohort is with or without Actual and Expected records; cohort
\* 2021Q1 is there or not; method BF has an ultimate for 2021Q1 or not; the
\* prior ultimates are the base ones (a prior of 0 for BF) or missing.
AERecordUniverse ==
    { MkRecord("Motor", "2022Q1", 8, "Actual", 80),
      MkRecord("Motor", "2022Q1", 0, "Actual", 10),
      MkRecord("Motor", "2022Q1", 0, "Expected", 90),
      MkRecord("Motor", "2022Q1", 1, "Expected", 0) }

AEOlderRecords ==
    { <<>>, CohortRecords("Motor", "2021Q1", <<<<4, 50>>>>, <<<<0, 70>>>>) }

AEUltimates ==
    { BaseDataset.ultimates,
      SelectSeq(BaseDataset.ultimates,
                LAMBDA u : ~(u.Cohort = "2021Q1" /\ u.Method = "BF")) }

InitAE ==
    \E records \in SeqsUpTo(AERecordUniverse, MaxRecords),
       older \in AEOlderRecords, ults \in AEUltimates,
       priors \in {BasePriors, <<>>} :
        Loaded([BaseDataset EXCEPT !.records = records \o older,
                                   !.ultimates = ults,
                                   !.prior_ultimates = priors])

\* renderAll() renders the scores table.
NextAE ==
    \/ InitDashboard
    \/ ClassChange

SpecAE == InitAE /\ [][NextAE]_vars


(* ================================================================== *)
(* Properties                                                         *)
(* ================================================================== *)
Ready == phase = "ready" /\ ~IsNull(currentClass) /\ ~IsNull(currentMethod)

Rows == decisionTable.rows
RowIdx == 1..Len(Rows)

\* The class and the method the decision table was rendered for.  Every
\* handler that changes one of them re-renders the table.
TableClass == Val(currentClass)
TableMethod == Val(currentMethod)

\* Conditions of rules 2 to 6, read off the dataset.
CountRows(cls, cohort) ==
    SelectSeq(dashboardData.cohort_claim_counts,
              LAMBDA c : c.Class = cls /\ c.Cohort = cohort)

PremiumRows(cls, cohort) ==
    SelectSeq(dashboardData.premiums,
              LAMBDA p : p.Class = cls /\ p.Cohort = cohort)

\* Rule 2: flagged in the percent-of-ultimate and in the percent-of-year-1
\* series.
FanningInBoth(cls, mth, cohort) ==
    LET grouped == getGroupedData(cls)
        chrono == SortedKeys(grouped)
    IN  /\ cohort \in Range(detectFanningCohorts(
                          buildPctSeries(grouped, chrono, cls, mth)))
        /\ cohort \in Range(detectFanningCohorts(buildNormSeries(grouped, chrono)))

\* Rule 3: (current - prior) / prior >= 0.15.
CountGrowthFires(cls, cohort) ==
    /\ CountRows(cls, cohort) # <<>>
    /\ LET c == CountRows(cls, cohort)[1]
       IN  c.Count_Prior > 0
           /\ 100 * (c.Count_Current - c.Count_Prior) >= 15 * c.Count_Prior

\* Rule 4: large / total * 100 >= 50.
LargeShareFires(cls, cohort) ==
    LET a == getAEAttribution(cls, cohort)
    IN  \/ a.total > 0 /\ 100 * a.large >= 50 * a.total
        \/ a.total < 0 /\ 100 * a.large <= 50 * a.total

\* Rule 5: (earned - prior) / prior >= 0.10.
PremiumGrowthFires(cls, cohort) ==
    /\ PremiumRows(cls, cohort) # <<>>
    /\ LET p == PremiumRows(cls, cohort)[1]
       IN  p.Prior_Earned > 0
           /\ 100 * (p.Earned - p.Prior_Earned) >= 10 * p.Prior_Earned

\* Rule 6: the method is premium-based and the largest claims-based
\* ultimate of the class and cohort exceeds the method's ultimate for it.
ClaimsBasedUltimates(cls, cohort) ==
    {u.Ultimate : u \in {x \in Range(dashboardData.ultimates) :
                            x.Class = cls /\ x.Cohort = cohort
                            /\ x.Method_Type = "Claims-based"}}

MethodUltimates(cls, cohort, mth) ==
    SelectSeq(dashboardData.ultimates,
              LAMBDA u : u.Class = cls /\ u.Cohort = cohort /\ u.Method = mth)

IsPremiumBased(mth) ==
    LET typed == SelectSeq(dashboardData.ultimates,
                           LAMBDA u : u.Method = mth /\ u.Method_Type # "")
    IN  typed # <<>> /\ typed[1].Method_Type = "Premium-based"

MismatchFires(cls, mth, cohort) ==
    /\ IsPremiumBased(mth)
    /\ MethodUltimates(cls, cohort, mth) # <<>>
    /\ \E v \in ClaimsBasedUltimates(cls, cohort) :
           v > MethodUltimates(cls, cohort, mth)[1].Ultimate

\* |aeRatio| <= 0.05
WithinTolerance(ae) == 20 * Abs(ae[1]) <= Abs(ae[2])

\* C1: a decision row whose A-vs-E ratio is within 5% in absolute value has
\* an empty driver and an empty suggestion, whatever the other inputs of
\* the decision are.
C1_WithinToleranceNoSignal ==
    \A i \in RowIdx :
        WithinTolerance(Rows[i].aeRatio)
            => Rows[i].driver = "" /\ Rows[i].suggestion = ""

\* C1 witness: a row within tolerance for which rules 2, 3, 4 and 5 all hold.
C1_Witness ==
    /\ Ready
    /\ \E i \in RowIdx :
        /\ WithinTolerance(Rows[i].aeRatio)
        /\ Rows[i].driver = ""
        /\ Rows[i].inFO
        /\ CountGrowthFires(TableClass, Rows[i].cohort)
        /\ LargeShareFires(TableClass, Rows[i].cohort)
        /\ PremiumGrowthFires(TableClass, Rows[i].cohort)

\* The driver of rules 2 to 5 that comes first, "" when none holds.
FirstOfRules2To5(cls, mth, cohort) ==
    IF FanningInBoth(cls, mth, cohort) THEN "Trend acceleration"
    ELSE IF CountGrowthFires(cls, cohort) THEN "Claim frequency"
    ELSE IF LargeShareFires(cls, cohort) THEN "Large losses"
    ELSE IF PremiumGrowthFires(cls, cohort) THEN "Premium growth"
    ELSE ""

\* C2: with the ratio outside the tolerance the driver is that of the first
\* of rules 2, 3, 4, 5 that holds; a later one never wins over an earlier one.
C2_FirstMatchingRuleWins ==
    Ready =>
    \A i \in RowIdx :
        LET first == FirstOfRules2To5(TableClass, TableMethod, Rows[i].cohort)
        IN  ~WithinTolerance(Rows[i].aeRatio) =>
                IF first # "" THEN Rows[i].driver = first
                ELSE Rows[i].driver \notin {"Trend acceleration", "Claim frequency",
                                            "Large losses", "Premium growth"}

\* C2 witness: counts 120 against 100, no fanning, a large-loss share of at
\* least 50 and premium growth of at least 10%: the driver is Claim frequency.
C2_Witness ==
    /\ Ready
    /\ \E i \in RowIdx :
        /\ ~WithinTolerance(Rows[i].aeRatio)
        /\ ~Rows[i].inFO
        /\ CountRows(TableClass, Rows[i].cohort) # <<>>
        /\ CountRows(TableClass, Rows[i].cohort)[1].Count_Current = 120
        /\ CountRows(TableClass, Rows[i].cohort)[1].Count_Prior = 100
        /\ LargeShareFires(TableClass, Rows[i].cohort)
        /\ PremiumGrowthFires(TableClass, Rows[i].cohort)
        /\ Rows[i].driver = "Claim frequency"

\* C3: with the ratio outside the tolerance and none of rules 2 to 5
\* holding, the driver is Method mismatch exactly when rule 6 holds and
\* Unclear otherwise.
C3_MismatchOrUnclear ==
    Ready =>
    \A i \in RowIdx :
        (/\ ~WithinTolerance(Rows[i].aeRatio)
         /\ FirstOfRules2To5(TableClass, TableMethod, Rows[i].cohort) = "")
            => Rows[i].driver =
                 IF MismatchFires(TableClass, TableMethod, Rows[i].cohort)
                 THEN "Method mismatch" ELSE "Unclear"

\* C3 witness: a Method mismatch row, and in the same table an Unclear row
\* of the premium-based method.
C3_Witness ==
    /\ Ready
    /\ IsPremiumBased(TableMethod)
    /\ \E i \in RowIdx : Rows[i].driver = "Method mismatch"
    /\ \E i \in RowIdx : Rows[i].driver = "Unclear"


\* The Actual and Expected records of a cohort, read off the dataset.
TypedRecords(cls, cohort, type) ==
    {r \in Range(dashboardData.records) :
        r.Class = cls /\ r.Cohort = cohort /\ r.Type = type}

CohortsOfClass(cls) ==
    {r.Cohort : r \in {x \in Range(dashboardData.records) : x.Class = cls}}

LastDPOf(cls, cohort) ==
    SetMax({r.Development_Period : r \in TypedRecords(cls, cohort, "Actual")})

\* The values recorded at the greatest development period.
LastActualsOf(cls, cohort) ==
    {r.Value : r \in {x \in TypedRecords(cls, cohort, "Actual") :
                         x.Development_Period = LastDPOf(cls, cohort)}}

\* The values of the Expected records of the least development period.
FirstExpectedOf(cls, cohort) ==
    {r.Value : r \in {x \in TypedRecords(cls, cohort, "Expected") :
                         \A y \in TypedRecords(cls, cohort, "Expected") :
                             x.Development_Period <= y.Development_Period}}

\* 144 * f(dp) for MAX = 12: 144 - (12 - dp)^2 between 0 and 12.
F144(dp) ==
    IF dp >= 12 THEN 144
    ELSE IF dp <= 0 THEN 0
    ELSE 144 - (12 - dp) * (12 - dp)

\* ae = (lastActual - e2u * f(dp)) / (e2u * f(dp)), as fractions.
IsAeRatio(ae, lastActual, e2u, dp) ==
    /\ ae[2] # 0
    /\ e2u * F144(dp) # 0
    /\ ae[1] * (e2u * F144(dp)) = ae[2] * (144 * lastActual - e2u * F144(dp))

HasActualAndE2U(cls, cohort) ==
    /\ TypedRecords(cls, cohort, "Actual") # {}
    /\ TypedRecords(cls, cohort, "Expected") # {}
    /\ 0 \notin FirstExpectedOf(cls, cohort)

RowHasRatio(row, cls) ==
    \E a \in LastActualsOf(cls, row.cohort), e \in FirstExpectedOf(cls, row.cohort) :
        IsAeRatio(row.aeRatio, a, e, LastDPOf(cls, row.cohort))

\* C4 as stated: every cohort with an Actual point and a non-zero E2U has a
\* decision row whose ratio is (lastActual - E2U*f(lastDP)) / (E2U*f(lastDP)).
C4_Original ==
    Ready =>
    \A cohort \in CohortsOfClass(TableClass) :
        HasActualAndE2U(TableClass, cohort)
            => \E i \in RowIdx : /\ Rows[i].cohort = cohort
                                 /\ RowHasRatio(Rows[i], TableClass)

\* C4: a cohort has a decision row exactly when it has an Actual point, a
\* non-zero E2U and a non-zero E2U*f(lastDP), that is lastDP > 0; the row's
\* ratio is (lastActual - E2U*f(lastDP)) / (E2U*f(lastDP)); with lastActual
\* 110 at period 6 and E2U 150 the ratio is -2.5/112.5 and the driver and the
\* suggestion are empty.
C4_AeRatioOfRow ==
    Ready =>
    /\ \A cohort \in CohortsOfClass(TableClass) :
          (HasActualAndE2U(TableClass, cohort) /\ LastDPOf(TableClass, cohort) > 0)
              <=> \E i \in RowIdx : Rows[i].cohort = cohort
    /\ \A i \in RowIdx :
          /\ RowHasRatio(Rows[i], TableClass)
          /\ (/\ LastDPOf(TableClass, Rows[i].cohort) = 6
              /\ LastActualsOf(TableClass, Rows[i].cohort) = {110}
              /\ FirstExpectedOf(TableClass, Rows[i].cohort) = {150})
                => /\ Rows[i].aeRatio = <<-1, 45>>
                   /\ Rows[i].driver = ""
                   /\ Rows[i].suggestion = ""

\* C4 witness: the row of class Motor, cohort 2022Q1 with 110 at period 6
\* and E2U 150.
C4_Witness ==
    /\ Ready
    /\ TableClass = "Motor"
    /\ \E i \in RowIdx :
        /\ Rows[i].cohort = "2022Q1"
        /\ LastDPOf("Motor", "2022Q1") = 6
        /\ LastActualsOf("Motor", "2022Q1") = {110}
        /\ FirstExpectedOf("Motor", "2022Q1") = {150}
        /\ Rows[i].aeRatio = <<-1, 45>>
        /\ Rows[i].driver = ""

(* ------------------------------------------------------------------ *)
(* A-vs-E attribution (SpecAttr)                                      *)
(* ------------------------------------------------------------------ *)
\* Positions of the claims of a class and cohort in the claims table.
ClaimIdx(cls, cohort) ==
    {i \in 1..Len(dashboardData.claims) :
        /\ dashboardData.claims[i].Class = cls
        /\ dashboardData.claims[i].Cohort = cohort}

\* Positions of those that are at or above the threshold of the class.
LargeIdx(cls, cohort) ==
    {i \in ClaimIdx(cls, cohort) :
        dashboardData.claims[i].Incurred_Current >= getLargeThreshold(cls)}

\* Sum of the movements Incurred_Current - Incurred_Prior at a set of positions.
RECURSIVE SumMov(_)
SumMov(I) ==
    IF I = {} THEN 0
    ELSE LET i == CHOOSE x \in I : TRUE
         IN  dashboardData.claims[i].Incurred_Current
             - dashboardData.claims[i].Incurred_Prior + SumMov(I \ {i})

\* The attribution shown in the claims table is that of its class and cohort.
ShownAttrIsAttribution ==
    ~IsNull(claimsTable.attr)
        => claimsTable.attr = Some(getAEAttribution(Val(claimsTable.class),
                                                    Val(claimsTable.cohort)))

\* C5: for every class and cohort getAEAttribution splits the claims of the
\* class and cohort into those with Incurred_Current >= threshold(class)
\* (large; a claim exactly at the threshold is large) and the others
\* (attritional); large + attritional is the total movement, and
\* largeLossCount + attritionalCount is totalCount, the number of claims of
\* the class and cohort.
C5_AttributionPartition ==
    /\ ShownAttrIsAttribution
    /\ \A cls \in Classes, cohort \in Cohorts :
        LET a == getAEAttribution(cls, cohort)
            all == ClaimIdx(cls, cohort)
            large == LargeIdx(cls, cohort)
        IN  /\ a.large = SumMov(large)
            /\ a.attritional = SumMov(all \ large)
            /\ a.total = SumMov(all)
            /\ a.large + a.attritional = a.total
            /\ a.largeLossCount = Cardinality(large)
            /\ a.attritionalCount = Cardinality(all \ large)
            /\ a.totalCount = Cardinality(all)
            /\ a.largeLossCount + a.attritionalCount = a.totalCount

\* C5 witness: the claims table shows the attribution of a cohort with a
\* claim exactly at the threshold, counted as large, and an attritional one.
C5_Witness ==
    /\ Ready
    /\ ~IsNull(claimsTable.attr)
    /\ Val(claimsTable.attr).largeLossCount >= 1
    /\ Val(claimsTable.attr).attritionalCount >= 1
    /\ \E i \in LargeIdx(Val(claimsTable.class), Val(claimsTable.cohort)) :
        dashboardData.claims[i].Incurred_Current
            = getLargeThreshold(Val(claimsTable.class))

\* C6: largePct is large / total * 100 when the total movement is not zero
\* and exactly 0 when it is zero (no claims, or movements that cancel); it
\* is never the result of a division by zero.
C6_LargePctGuarded ==
    /\ ShownAttrIsAttribution
    /\ \A cls \in Classes, cohort \in Cohorts :
        LET a == getAEAttribution(cls, cohort)
        IN  /\ FFinite(a.largePct)
            /\ a.total = 0 => a.largePct = FInt(0)
            /\ a.total # 0 =>
                   a.largePct[1] * a.total = 100 * a.large * a.largePct[2]

\* C6 witness: the claims table shows a cohort whose movements cancel
\* while its large movement is not zero, with largePct 0.
C6_Witness ==
    /\ Ready
    /\ ~IsNull(claimsTable.attr)
    /\ Val(claimsTable.attr).totalCount >= 2
    /\ Val(claimsTable.attr).total = 0
    /\ Val(claimsTable.attr).large # 0
    /\ Val(claimsTable.attr).largePct = FInt(0)

(* ------------------------------------------------------------------ *)
(* Passing methods and the ultimate band (SpecBand)                   *)
(* ------------------------------------------------------------------ *)
\* Thresholds at and just above every quality that occurs (hundredths).
ThresholdGrid == {0, 40, 41, 50, 51, 70, 71, 100}

\* The band of a class and cohort at a threshold.
BandAt(cls, cohort, t) == getUltimateBand(cls, cohort, PassingMethodsAt(cls, t))

\* The badge and the bands in the LHS chart are those of the current class
\* at the current threshold.
ShownBandsAreBands ==
    (phase = "ready" /\ ~IsNull(currentClass)) =>
        /\ methodsCount = Len(getPassingMethods(Val(currentClass)))
        /\ \A k \in Cohorts :
            LET b == BandAt(Val(currentClass), k, qualityThreshold)
            IN  /\ k \in DOMAIN lhsChart.bands => Some(lhsChart.bands[k]) = b
                /\ (k \in lhsChart.traced /\ ~IsNull(b))
                        => k \in DOMAIN lhsChart.bands

\* C7: for every class and thresholds t1 < t2 the methods passing at t2
\* are among the methods passing at t1.
C7_PassingMonotone ==
    /\ ShownBandsAreBands
    /\ \A cls \in Classes, t1 \in ThresholdGrid, t2 \in ThresholdGrid :
        t1 < t2 => Range(PassingMethodsAt(cls, t2))
                       \subseteq Range(PassingMethodsAt(cls, t1))

\* C7 witness: the slider stands at a threshold where one scored method of
\* the current class passes and another one does not.
C7_Witness ==
    /\ Ready
    /\ qualityThreshold > 0
    /\ methodsCount >= 1
    /\ Range(getPassingMethods(TableClass)) # Range(PassingMethodsAt(TableClass, 0))

\* C8: for every class, cohort and thresholds t1 < t2, a band at t2 implies
\* a band at t1 with max(t2) <= max(t1), min(t2) >= min(t1) and
\* count(t2) <= count(t1).
C8_BandNarrows ==
    \A cls \in Classes, cohort \in Cohorts, t1 \in ThresholdGrid, t2 \in ThresholdGrid :
        (t1 < t2 /\ ~IsNull(BandAt(cls, cohort, t2))) =>
            /\ ~IsNull(BandAt(cls, cohort, t1))
            /\ Val(BandAt(cls, cohort, t2)).max <= Val(BandAt(cls, cohort, t1)).max
            /\ Val(BandAt(cls, cohort, t2)).min >= Val(BandAt(cls, cohort, t1)).min
            /\ Val(BandAt(cls, cohort, t2)).count <= Val(BandAt(cls, cohort, t1)).count

\* C8 witness: the chart shows a band that is strictly narrower, on both
\* sides and in count, than the band of the same cohort at threshold 0.
C8_Witness ==
    /\ Ready
    /\ qualityThreshold > 0
    /\ \E k \in DOMAIN lhsChart.bands :
        LET b0 == BandAt(TableClass, k, 0)
        IN  /\ ~IsNull(b0)
            /\ lhsChart.bands[k].max < Val(b0).max
            /\ lhsChart.bands[k].min > Val(b0).min
            /\ lhsChart.bands[k].count < Val(b0).count

\* Lists of methods handed to getUltimateBand: the passing methods at the
\* thresholds of the grid and short lists of method keys.
MethodLists(cls) ==
    {PassingMethodsAt(cls, t) : t \in ThresholdGrid}
        \cup SeqsUpTo(Methods \cup {"MX"}, 2)

\* Positions of the ultimates of a class and cohort whose method is in a list.
BandIdx(cls, cohort, passingMethods) ==
    {i \in 1..Len(dashboardData.ultimates) :
        /\ dashboardData.ultimates[i].Class = cls
        /\ dashboardData.ultimates[i].Cohort = cohort
        /\ dashboardData.ultimates[i].Method \in Range(passingMethods)}

\* C9: getUltimateBand(class, cohort, passingMethods) is null exactly when
\* no ultimate of the class and cohort has its method in passingMethods;
\* otherwise it holds the minimum, the maximum and the number of exactly
\* those ultimates.
C9_BandOfMatching ==
    /\ ShownBandsAreBands
    /\ \A cls \in Classes, cohort \in Cohorts :
        \A P \in MethodLists(cls) :
            LET b == getUltimateBand(cls, cohort, P)
                idx == BandIdx(cls, cohort, P)
                vals == {dashboardData.ultimates[i].Ultimate : i \in idx}
            IN  /\ IsNull(b) <=> idx = {}
                /\ ~IsNull(b) =>
                    /\ Val(b).count = Cardinality(idx)
                    /\ Val(b).min \in vals
                    /\ Val(b).max \in vals
                    /\ \A v \in vals : Val(b).min <= v /\ v <= Val(b).max

\* C9 witness: the chart shows a band over two ultimates of a cohort while
\* a third ultimate of the cohort, of a method that does not pass, is left
\* out.
C9_Witness ==
    /\ Ready
    /\ \E k \in DOMAIN lhsChart.bands :
        /\ lhsChart.bands[k].count = 2
        /\ lhsChart.bands[k].min < lhsChart.bands[k].max
        /\ Cardinality(BandIdx(TableClass, k, <<"CL", "BF">>)) = 3

(* ------------------------------------------------------------------ *)
(* Grouping of the records (SpecGroup)                                *)
(* ------------------------------------------------------------------ *)
\* Positions of the records of a class, cohort and type.
RecordIdx(cls, cohort, type) ==
    {i \in 1..Len(dashboardData.records) :
        /\ dashboardData.records[i].Class = cls
        /\ dashboardData.records[i].Cohort = cohort
        /\ dashboardData.records[i].Type = type}

\* The (developmentPeriod, value) pair of a record.
PointOf(r) == [dp |-> r.Development_Period, val |-> r.Value]

\* An array holds exactly the points of the records at a set of positions,
\* each as often as it occurs there.
SamePoints(arr, I) ==
    /\ Len(arr) = Cardinality(I)
    /\ \A p \in Range(arr) \cup {PointOf(dashboardData.records[i]) : i \in I} :
        Cardinality({j \in 1..Len(arr) : arr[j] = p})
            = Cardinality({i \in I : PointOf(dashboardData.records[i]) = p})

Ascending(arr) == \A i \in 1..Len(arr), j \in 1..Len(arr) :
                      i < j => arr[i].dp <= arr[j].dp

\* The traces of the LHS chart are the grouped cohorts of the current
\* class that have an Actual point.
ShownTracesAreGrouped ==
    (phase = "ready" /\ ~IsNull(currentClass)) =>
        lhsChart.traced = {c \in Cohorts : RecordIdx(Val(currentClass), c, "Actual") # {}}

\* C10: for every class C, getGroupedData(C) has a key for exactly the
\* cohorts with a record of class C; the Actual and Expected arrays of a
\* cohort hold exactly the (developmentPeriod, value) pairs of the records
\* of that class, cohort and type, ascending by developmentPeriod; records
\* of other classes do not appear.
C10_GroupedData ==
    /\ ShownTracesAreGrouped
    /\ \A cls \in Classes :
        LET grouped == getGroupedData(cls)
        IN  /\ DOMAIN grouped
                  = {c \in Cohorts : \E type \in Types : RecordIdx(cls, c, type) # {}}
            /\ \A c \in DOMAIN grouped :
                /\ DOMAIN grouped[c] = Types
                /\ \A type \in Types :
                    /\ SamePoints(grouped[c][type], RecordIdx(cls, c, type))
                    /\ Ascending(grouped[c][type])

\* C10 witness: the chart of a class is drawn from records in which a
\* cohort's Actual points come out of period order, next to a record of
\* another class.
C10_Witness ==
    /\ Ready
    /\ \E c \in lhsChart.traced :
        \E i \in RecordIdx(TableClass, c, "Actual"), j \in RecordIdx(TableClass, c, "Actual") :
            /\ i < j
            /\ dashboardData.records[i].Development_Period
                   > dashboardData.records[j].Development_Period
    /\ \E i \in 1..Len(dashboardData.records) :
        dashboardData.records[i].Class # TableClass

\* No developmentPeriod occurs twice in an array.
UniqueDp(arr) == \A i \in 1..Len(arr), j \in 1..Len(arr) :
                     i # j => arr[i].dp # arr[j].dp

\* C11: in every cohort series produced by getGroupedData, no
\* developmentPeriod occurs more than once within the Actual array or
\* within the Expected array.  getGroupedData pushes a point for every
\* record and only sorts: two records of one class, cohort, type and
\* period leave two points at that period.
C11_Original ==
    (phase = "ready" /\ ~IsNull(currentClass)) =>
        LET grouped == getGroupedData(Val(currentClass))
        IN  \A c \in DOMAIN grouped, type \in Types : UniqueDp(grouped[c][type])

(* ------------------------------------------------------------------ *)
(* Ultimates (SpecUlt)                                                *)
(* ------------------------------------------------------------------ *)
SetMin(S) == CHOOSE x \in S : \A y \in S : x <= y

\* Positions of the entries of a table with a class, cohort and method.
KeyIdx(table, cls, cohort, mth) ==
    {i \in 1..Len(table) : /\ table[i].Class = cls
                            /\ table[i].Cohort = cohort
                            /\ table[i].Method = mth}

\* What a lookup of a key in a table is to give: the stored value of the
\* (first) entry of the key, NULL without one.
StoredValue(table, cls, cohort, mth) ==
    IF KeyIdx(table, cls, cohort, mth) = {} THEN NULL
    ELSE Some(table[SetMin(KeyIdx(table, cls, cohort, mth))].Ultimate)

\* Sum of the ultimates at a set of positions of the ultimates table.
RECURSIVE SumUltimatesAt(_)
SumUltimatesAt(I) ==
    IF I = {} THEN 0
    ELSE LET i == CHOOSE x \in I : TRUE
         IN  dashboardData.ultimates[i].Ultimate + SumUltimatesAt(I \ {i})

\* Sum over a set of cohorts of the current ultimate of a class and method.
RECURSIVE SumOverCohorts(_, _, _)
SumOverCohorts(cls, mth, K) ==
    IF K = {} THEN 0
    ELSE LET k == CHOOSE x \in K : TRUE
             u == getUltimate(cls, k, mth)
         IN  (IF IsNull(u) THEN 0 ELSE Val(u)) + SumOverCohorts(cls, mth, K \ {k})

\* No key has two entries in the ultimates table.
UniqueUltimateKeys ==
    \A i \in 1..Len(dashboardData.ultimates), j \in 1..Len(dashboardData.ultimates) :
        (/\ dashboardData.ultimates[i].Class = dashboardData.ultimates[j].Class
         /\ dashboardData.ultimates[i].Cohort = dashboardData.ultimates[j].Cohort
         /\ dashboardData.ultimates[i].Method = dashboardData.ultimates[j].Method)
            => i = j

MethodKeys == Methods \cup {"MX"}

\* The ultimate change shown in a decision row is there exactly when the
\* prior ultimate is neither missing nor 0 and the current one is not
\* missing (a current ultimate of 0 counts as present).
ShownUltChangeFromLookups ==
    Ready =>
        \A i \in RowIdx :
            LET cur == StoredValue(dashboardData.ultimates, TableClass,
                                   Rows[i].cohort, TableMethod)
                pri == StoredValue(dashboardData.prior_ultimates, TableClass,
                                   Rows[i].cohort, TableMethod)
            IN  IF IsNull(cur) \/ IsNull(pri) \/ pri = Some(0)
                THEN IsNull(Rows[i].ultChgPct)
                ELSE Rows[i].ultChgPct = Some(Frac(Val(cur) - Val(pri), Val(pri)))

\* C12: getUltimate and getPriorUltimate return the stored value of the
\* entry of (class, cohort, method) and null, not 0, without such an
\* entry; a stored 0 is returned as 0.  getTotalUltimate(class, method) is
\* the sum of the current ultimates of the class and method over all
\* cohorts.
C12_UltimateLookups ==
    /\ ShownUltChangeFromLookups
    /\ \A cls \in Classes, cohort \in Cohorts, mth \in MethodKeys :
        /\ getUltimate(cls, cohort, mth)
              = StoredValue(dashboardData.ultimates, cls, cohort, mth)
        /\ getPriorUltimate(cls, cohort, mth)
              = StoredValue(dashboardData.prior_ultimates, cls, cohort, mth)
    /\ \A cls \in Classes, mth \in MethodKeys :
        /\ getTotalUltimate(cls, mth)
              = SumUltimatesAt({i \in 1..Len(dashboardData.ultimates) :
                                  /\ dashboardData.ultimates[i].Class = cls
                                  /\ dashboardData.ultimates[i].Method = mth})
        /\ UniqueUltimateKeys
              => getTotalUltimate(cls, mth) = SumOverCohorts(cls, mth, Cohorts)

\* C12 witness: the decision table shows a change of -100% for a cohort
\* whose stored current ultimate is 0 and no change for a cohort without a
\* current ultimate, while the total of the method over two cohorts is
\* their sum.
C12_Witness ==
    /\ Ready
    /\ UniqueUltimateKeys
    /\ getTotalUltimate(TableClass, TableMethod) = 60
    /\ \E i \in RowIdx, j \in RowIdx :
        /\ getUltimate(TableClass, Rows[i].cohort, TableMethod) = Some(0)
        /\ Rows[i].ultChgPct = Some(<<-1, 1>>)
        /\ IsNull(getUltimate(TableClass, Rows[j].cohort, TableMethod))
        /\ IsNull(Rows[j].ultChgPct)

(* ------------------------------------------------------------------ *)
(* developmentFraction (SpecDev)                                      *)
(* ------------------------------------------------------------------ *)
\* The rows of the decision table use f at the last period: no row at or
\* below period 0, the full E2U at or beyond MAX_DEV_PERIOD.
ShownRatioUsesFraction ==
    Ready =>
        \A i \in RowIdx :
            LET dp == LastDPOf(TableClass, Rows[i].cohort)
            IN  /\ dp > 0
                /\ dp >= MAX_DEV_PERIOD =>
                      \E a \in LastActualsOf(TableClass, Rows[i].cohort),
                         e \in FirstExpectedOf(TableClass, Rows[i].cohort) :
                          Rows[i].aeRatio = Frac(a - e, e)

\* C13: f(0) = 0, f(MAX) = 1, f(dp) = 1 - (1 - dp/MAX)^2 for
\* 0 <= dp <= MAX (f(6) = 3/4 with MAX = 12), f(dp) = 0 for dp < 0,
\* f(dp) = 1 for dp > MAX, f is non-decreasing and lies in [0, 1].
C13_DevelopmentFraction ==
    /\ ShownRatioUsesFraction
    /\ developmentFraction(0) = FInt(0)
    /\ developmentFraction(MAX_DEV_PERIOD) = FInt(1)
    /\ MAX_DEV_PERIOD = 12 => developmentFraction(6) = <<3, 4>>
    /\ \A dp \in DevPeriods :
        LET f == developmentFraction(dp)
        IN  /\ f[2] > 0
            /\ 0 <= f[1] /\ f[1] <= f[2]
            /\ dp < 0 => f = FInt(0)
            /\ dp > MAX_DEV_PERIOD => f = FInt(1)
            /\ (0 <= dp /\ dp <= MAX_DEV_PERIOD) =>
                  f[1] * MAX_DEV_PERIOD * MAX_DEV_PERIOD
                    = f[2] * (MAX_DEV_PERIOD * MAX_DEV_PERIOD
                              - (MAX_DEV_PERIOD - dp) * (MAX_DEV_PERIOD - dp))
            /\ \A dq \in DevPeriods :
                  dp <= dq => FLe(f, developmentFraction(dq))

\* C13 witness: the decision table shows the drawn cohort with its last
\* Actual point beyond MAX_DEV_PERIOD, its ratio taken against the full E2U.
C13_Witness ==
    /\ Ready
    /\ \E i \in RowIdx :
        /\ Rows[i].cohort = "2022Q1"
        /\ LastDPOf(TableClass, "2022Q1") > MAX_DEV_PERIOD
        /\ LastActualsOf(TableClass, "2022Q1") = {100}
        /\ FirstExpectedOf(TableClass, "2022Q1") = {150}
        /\ Rows[i].aeRatio = <<-1, 3>>

(* ------------------------------------------------------------------ *)
(* Fanning detection (SpecFan)                                        *)
(* ------------------------------------------------------------------ *)
\* The series handed to detectFanningCohorts by the two development
\* charts and the cohorts it returned.
FanViews ==
    { [series |-> pctChart.series, fanning |-> pctChart.fanning],
      [series |-> normChart.series, fanning |-> normChart.fanning] }

Flagged(v, i) == v.series[i].cohort \in Range(v.fanning)

\* C14 as stated: neither of the first two (oldest) series is ever
\* flagged, and nothing is flagged with fewer than 3 series.  The loop of
\* detectFanningCohorts starts at the second series.
C14_Original ==
    \A v \in FanViews :
        /\ Len(v.series) < 3 => v.fanning = <<>>
        /\ \A i \in 1..Len(v.series) : i <= 2 => ~Flagged(v, i)

\* C14 (amended): the first (oldest) series is never flagged, and nothing
\* is flagged with fewer than 3 series; every flagged cohort is one of the
\* series from the second on.
C14_NeverOldest ==
    \A v \in FanViews :
        /\ Len(v.series) < 3 => v.fanning = <<>>
        /\ Len(v.series) >= 1 => ~Flagged(v, 1)
        /\ Range(v.fanning)
              \subseteq {v.series[i].cohort : i \in 2..Len(v.series)}

\* C14 witness: a chart of three series flags the second one, and not the
\* first.
C14_Witness ==
    /\ Ready
    /\ \E v \in FanViews :
        /\ Len(v.series) = 3
        /\ Flagged(v, 2)
        /\ ~Flagged(v, 1)

\* The periods a series has in common with the series before it.
CommonDps(series, i) ==
    {dp \in DOMAIN series[i].dpMap :
        \E j \in 1..(i - 1) : dp \in DOMAIN series[j].dpMap}

\* The older series that have a period.
OlderWith(series, i, dp) == {j \in 1..(i - 1) : dp \in DOMAIN series[j].dpMap}

\* Sum of the values at a period over a set of series.
RECURSIVE FSumAt(_, _, _)
FSumAt(series, J, dp) ==
    IF J = {} THEN FInt(0)
    ELSE LET j == CHOOSE x \in J : TRUE
         IN  FAdd(series[j].dpMap[dp], FSumAt(series, J \ {j}, dp))

\* The value of series i at a period exceeds the mean of the older series
\* at that period by more than 10.
ExceedsOlderMean(series, i, dp) ==
    LET J == OlderWith(series, i, dp)
        mean == FDiv(FSumAt(series, J, dp), FInt(Cardinality(J)))
    IN  FGt(FSub(series[i].dpMap[dp], mean), FInt(10))

\* C15 as stated: a cohort that is examined (from the third series on,
\* with at least two periods, in an input of at least 3 series) is flagged
\* exactly when, at the most recent period it has in common with older
\* cohorts, its value exceeds the mean of the older cohorts' values at
\* that period by strictly more than 10.  detectFanningCohorts compares at
\* the cohort's own last period and skips the cohort when no older cohort
\* has that period.
C15_Original ==
    \A v \in FanViews :
        \A i \in 3..Len(v.series) :
            Cardinality(DOMAIN v.series[i].dpMap) >= 2 =>
                (Flagged(v, i) <=>
                    /\ CommonDps(v.series, i) # {}
                    /\ ExceedsOlderMean(v.series, i, SetMax(CommonDps(v.series, i))))

\* C16: a cohort whose series has fewer than 2 data points is never
\* flagged, whatever its value against the older cohorts.
C16_SinglePointNeverFlagged ==
    \A v \in FanViews :
        \A i \in 1..Len(v.series) :
            Len(v.series[i].dpVals) < 2 => ~Flagged(v, i)

\* C16 witness: in a chart of three series, a cohort after the first has a
\* single point, more than 10 above the mean of the older cohorts at that
\* period, and is not flagged.
C16_Witness ==
    /\ Ready
    /\ \E v \in FanViews :
        /\ Len(v.series) = 3
        /\ \E i \in 2..3 :
            /\ Len(v.series[i].dpVals) = 1
            /\ CommonDps(v.series, i) # {}
            /\ ExceedsOlderMean(v.series, i, SetMax(CommonDps(v.series, i)))
            /\ ~Flagged(v, i)

(* ------------------------------------------------------------------ *)
(* Percent-of-ultimate series (SpecUlt)                               *)
(* ------------------------------------------------------------------ *)
\* pct = val / base * 100, as a fraction with a non-zero denominator.
IsPctOf(pct, val, base) ==
    /\ pct[2] # 0
    /\ base # 0
    /\ pct[1] * base = 100 * val * pct[2]

\* The cohorts of a class that have an Actual record and a current
\* ultimate of the method that is neither missing nor 0.
PctCohorts(cls, mth) ==
    {c \in CohortsOfClass(cls) :
        /\ TypedRecords(cls, c, "Actual") # {}
        /\ StoredValue(dashboardData.ultimates, cls, c, mth) \notin {NULL, Some(0)}}

\* A series is the percent-of-ultimate series of a class and method: an
\* entry for exactly the cohorts of PctCohorts, oldest first, and in each
\* entry one point per Actual point of the cohort, with its period and
\* pct = val / ultimate * 100.
IsPctSeries(series, cls, mth) ==
    /\ {series[i].cohort : i \in 1..Len(series)} = PctCohorts(cls, mth)
    /\ Len(series) = Cardinality(PctCohorts(cls, mth))
    /\ \A i \in 1..Len(series) :
        LET actual == getGroupedData(cls)[series[i].cohort].Actual
            ult == Val(StoredValue(dashboardData.ultimates, cls,
                                   series[i].cohort, mth))
        IN  /\ Len(series[i].dpVals) = Len(actual)
            /\ \A k \in 1..Len(actual) :
                /\ series[i].dpVals[k].dp = actual[k].dp
                /\ IsPctOf(series[i].dpVals[k].pct, actual[k].val, ult)

\* C17: buildPctSeries includes a cohort exactly when it has an Actual
\* point and getUltimate(class, cohort, method) is neither null nor 0; an
\* included cohort has one entry per Actual point with
\* pct = val / ultimate * 100, so nothing is divided by a null or zero
\* ultimate.
C17_PctSeries ==
    /\ Ready => IsPctSeries(pctChart.series, TableClass, TableMethod)
    /\ \A cls \in Classes, mth \in MethodKeys :
        IsPctSeries(buildPctSeries(getGroupedData(cls),
                                   SortedKeys(getGroupedData(cls)), cls, mth),
                    cls, mth)

\* C17 witness: the percent-of-ultimate chart shows one cohort, and leaves
\* out a cohort whose stored ultimate is 0 and a cohort without an
\* ultimate, both with Actual points.
C17_Witness ==
    /\ Ready
    /\ Len(pctChart.series) = 1
    /\ Len(pctChart.series[1].dpVals) = 2
    /\ \E c \in lhsChart.traced :
        getUltimate(TableClass, c, TableMethod) = Some(0)
    /\ \E c \in lhsChart.traced :
        IsNull(getUltimate(TableClass, c, TableMethod))

(* ------------------------------------------------------------------ *)
(* Percent-of-year-1 series (SpecNorm)                                *)
(* ------------------------------------------------------------------ *)
\* The values of the Actual records of a cohort at the base period 4.
BaseValuesOf(cls, cohort) ==
    {r.Value : r \in {x \in TypedRecords(cls, cohort, "Actual") :
                         x.Development_Period = 4}}

\* The cohorts of a class with an Actual record at period 4 whose value is
\* not 0.
NormCohorts(cls) ==
    {c \in CohortsOfClass(cls) : \E b \in BaseValuesOf(cls, c) : b # 0}

\* C18 as stated: buildNormSeries includes a cohort exactly when it has an
\* Actual point at period exactly 4 whose value is non-zero, and maps every
\* Actual point of an included cohort to val / actual(4) * 100.  The code
\* takes the first Actual point at period 4: when that one is 0 the cohort
\* is left out although a second point at period 4 is non-zero.
C18_Original ==
    (phase = "ready" /\ ~IsNull(currentClass)) =>
        LET cls == Val(currentClass)
            series == normChart.series
        IN  /\ {series[i].cohort : i \in 1..Len(series)} = NormCohorts(cls)
            /\ \A i \in 1..Len(series) :
                LET actual == getGroupedData(cls)[series[i].cohort].Actual
                IN  /\ Len(series[i].dpVals) = Len(actual)
                    /\ \E b \in BaseValuesOf(cls, series[i].cohort) :
                        \A k \in 1..Len(actual) :
                            /\ series[i].dpVals[k].dp = actual[k].dp
                            /\ IsPctOf(series[i].dpVals[k].pct, actual[k].val, b)

(* ------------------------------------------------------------------ *)
(* Absent and empty collections (SpecGaps)                            *)
(* ------------------------------------------------------------------ *)
\* A collection that is absent from the dataset or empty.
Gap(name) ==
    name \notin DOMAIN dashboardData \/ dashboardData[name] = <<>>

DagDrivers ==
    {"", "Trend acceleration", "Claim frequency", "Large losses",
     "Premium growth", "Method mismatch", "Unclear"}

\* What the derivations of a class, cohort and method return over the
\* collections that are absent or empty.
GapResults(cls, cohort, m) ==
    LET grouped == getGroupedData(cls)
        chrono == SortedKeys(grouped)
        pct == buildPctSeries(grouped, chrono, cls, m)
        norm == buildNormSeries(grouped, chrono)
        band == getUltimateBand(cls, cohort, getPassingMethods(cls))
        attr == getAEAttribution(cls, cohort)
    IN  /\ Gap("records") =>
            /\ DOMAIN grouped = {}
            /\ pct = <<>> /\ norm = <<>>
            /\ detectFanningCohorts(pct) = <<>>
            /\ detectFanningCohorts(norm) = <<>>
        /\ Gap("ultimates") =>
            /\ getUltimate(cls, cohort, m) = NULL
            /\ getTotalUltimate(cls, m) = 0
            /\ band = NULL
            /\ pct = <<>>
        /\ Gap("prior_ultimates") => getPriorUltimate(cls, cohort, m) = NULL
        /\ Gap("method_scores") =>
            /\ getPassingMethods(cls) = <<>>
            /\ band = NULL
        /\ Gap("claims") =>
            /\ attr.total = 0 /\ attr.large = 0 /\ attr.attritional = 0
            /\ attr.largePct = FInt(0) /\ attr.totalCount = 0
        /\ Gap("large_loss_thresholds") =>
            attr.threshold = DEFAULT_LARGE_THRESHOLD
        /\ Gap("premiums") => getPremiumChange(cls, cohort) = NULL
        /\ Gap("cohort_claim_counts") =>
            getClaimCountChange(cls, cohort) = NULL

\* C19: with any subset of the collections records, ultimates,
\* prior_ultimates, method_scores, claims, large_loss_thresholds, premiums
\* and cohort_claim_counts absent or empty, no derivation reads an
\* undefined collection (an absent one reads as the empty one) and each
\* returns null, an empty collection or 0 over the gap; the decision rows
\* rendered carry a result of runDecisionDAG.
C19_GapsTolerated ==
    /\ \A name \in GapCollections :
           name \notin DOMAIN dashboardData => OrEmpty(name) = <<>>
    /\ \A cls \in Range(OrEmpty("classes")), cohort \in Range(CohortOrder),
          m \in Range(OrEmpty("methods")) : GapResults(cls, cohort, m)
    /\ phase = "ready" =>
           /\ \A i \in 1..Len(decisionTable.rows) :
                  decisionTable.rows[i].driver \in DagDrivers
           /\ Gap("records") =>
                  /\ decisionTable.rows = <<>>
                  /\ pctChart.series = <<>> /\ normChart.series = <<>>

\* Reached: the dashboard is rendered from a dataset with an absent and an
\* empty collection, and decision rows are still shown.
C19_Witness ==
    /\ phase = "ready"
    /\ "claims" \notin DOMAIN dashboardData
    /\ "prior_ultimates" \notin DOMAIN dashboardData
    /\ "premiums" \in DOMAIN dashboardData /\ dashboardData["premiums"] = <<>>
    /\ Len(decisionTable.rows) > 0
    /\ \E i \in 1..Len(decisionTable.rows) :
           decisionTable.rows[i].driver \notin {"", "Unclear"}

(* ------------------------------------------------------------------ *)
(* Re-rendering of the decision table (Spec)                          *)
(* ------------------------------------------------------------------ *)
\* The decision table is the one rendered from the current class and
\* method, for some selection of a cohort.
DecisionTableIsCurrent ==
    \E sel \in {NULL} \cup {Some(c) : c \in Range(CohortOrder)} :
        decisionTable = renderDecisionTable(currentClass, currentMethod, sel,
                                            decisionTable)

\* A step of a handler that changes the class, the method or the threshold
\* ends with the decision table rendered from the new values.
RerenderedOnChange ==
    (/\ phase = "ready"
     /\ \/ currentClass' # currentClass
        \/ currentMethod' # currentMethod
        \/ qualityThreshold' # qualityThreshold)
    => decisionTable' = renderDecisionTable(currentClass', currentMethod',
                                           selectedCohort', decisionTable)

\* C20: after a user action that changes currentClass (class selector),
\* currentMethod (method selector, scores-table row) or qualityThreshold
\* (slider), the decision table has been re-rendered from the new values
\* when the handler returns, and the rows displayed never belong to an
\* earlier class or method.
C20_DecisionTableFollows ==
    /\ [](Ready => DecisionTableIsCurrent)
    /\ [][RerenderedOnChange]_vars

\* Reached: the class, the method and the threshold have all been changed
\* and decision rows are displayed.
C20_Witness ==
    /\ phase = "ready"
    /\ currentClass # FirstOrNull(OrEmpty("classes"))
    /\ currentMethod # FirstOrNull(OrEmpty("methods"))
    /\ qualityThreshold # 0
    /\ Len(decisionTable.rows) > 0

(* ------------------------------------------------------------------ *)
(* Views of the selected cohort (Spec)                                *)
(* ------------------------------------------------------------------ *)
\* The claims table, the highlight of the LHS chart and the selected-row
\* marker of the decision table all show the selected cohort.
ClaimsTableShowsSelection == claimsTable.cohort = selectedCohort
HighlightShowsSelection == lhsChart.highlight = selectedCohort
MarkerShowsSelection ==
    \A i \in 1..Len(decisionTable.rows) :
        decisionTable.rows[i].selected
            <=> (selectedCohort = Some(decisionTable.rows[i].cohort))

\* C21 as stated: after any action that changes selectedCohort (chart click,
\* decision-row click, clear button, class change) the claims table, the
\* highlight of the LHS chart and the selected-row marker of the decision
\* table show the new value.  selectCohort(), which the chart click calls,
\* renders the claims table and the LHS chart but not the decision table:
\* the marker stays on the row selected before.
C21_Original ==
    (phase = "ready" /\ ~IsNull(currentClass)) =>
        /\ ClaimsTableShowsSelection
        /\ HighlightShowsSelection
        /\ MarkerShowsSelection

(* ------------------------------------------------------------------ *)
(* Cohorts with Expected records only (Spec)                          *)
(* ------------------------------------------------------------------ *)
\* The cohorts of a class with Expected records and no Actual record.
ExpectedOnlyCohorts(cls) ==
    {c \in CohortsOfClass(cls) :
        /\ TypedRecords(cls, c, "Expected") # {}
        /\ TypedRecords(cls, c, "Actual") = {}}

\* A method that passes the threshold has an ultimate for the cohort.
PassingUltimateFor(cls, c) ==
    \E u \in Range(dashboardData.ultimates), sc \in Range(dashboardData.method_scores) :
        /\ u.Class = cls /\ u.Cohort = c
        /\ sc.Class = cls /\ sc.Method = u.Method
        /\ sc.Proj_Quality >= qualityThreshold

CohortsIn(rows) == {rows[i].cohort : i \in 1..Len(rows)}

\* C22: a cohort of the current class with Expected records but no Actual
\* record has no decision row, no row in the comparison chart, no band (and
\* no trace) in the flight-path chart and no entry in the percent-of-ultimate
\* and percent-of-year-1 series, while getUltimateBand returns a band for it
\* whenever a passing method has an ultimate for it.
C22_ExpectedOnlyOmitted ==
    (phase = "ready" /\ ~IsNull(currentClass)) =>
        \A c \in ExpectedOnlyCohorts(Val(currentClass)) :
            /\ c \notin CohortsIn(decisionTable.rows)
            /\ c \notin CohortsIn(lhsChart.rows)
            /\ c \notin DOMAIN lhsChart.bands
            /\ c \notin lhsChart.traced
            /\ c \notin CohortsIn(pctChart.series)
            /\ c \notin CohortsIn(normChart.series)
            /\ PassingUltimateFor(Val(currentClass), c) =>
                   ~IsNull(getUltimateBand(Val(currentClass), c,
                               getPassingMethods(Val(currentClass))))

\* Reached: the comparison chart and the decision table show rows of a
\* class that has a cohort with Expected records only, for which a passing
\* method has an ultimate.
C22_Witness ==
    /\ phase = "ready" /\ ~IsNull(currentClass) /\ ~IsNull(currentMethod)
    /\ lhsChart.view = "comparison"
    /\ Len(lhsChart.rows) > 0
    /\ Len(decisionTable.rows) > 0
    /\ Len(pctChart.series) > 0
    /\ \E c \in ExpectedOnlyCohorts(Val(currentClass)) :
           PassingUltimateFor(Val(currentClass), c)

(* ------------------------------------------------------------------ *)
(* Growth-rate inputs of the decision engine (SpecGrowth)             *)
(* ------------------------------------------------------------------ *)
\* The inputs of runDecisionDAG behind a displayed row.
OptsOfRow(row) ==
    DecisionOpts(Val(currentClass), Val(currentMethod), row.cohort,
                 getGroupedData(Val(currentClass))[row.cohort], row.inFO,
                 row.methodType)

GrowthInputsGuarded(row) ==
    LET cls == Val(currentClass)
        opts == OptsOfRow(row)
        counts == CountRows(cls, row.cohort)
        premiums == PremiumRows(cls, row.cohort)
    IN  /\ FFinite(opts.premiumChangePct)
        /\ IF counts = <<>> \/ counts[1].Count_Prior = 0
           THEN /\ ~opts.claimCountUp15
                /\ row.driver # "Claim frequency"
           ELSE opts.claimCountUp15 <=>
                    FGe(Frac(counts[1].Count_Current - counts[1].Count_Prior,
                             counts[1].Count_Prior),
                        DAG_CLAIM_COUNT_THRESHOLD)
        /\ IF premiums = <<>> \/ premiums[1].Prior_Earned = 0
           THEN /\ opts.premiumChangePct = FInt(0)
                /\ row.driver # "Premium growth"
           ELSE opts.premiumChangePct =
                    Frac(premiums[1].Earned - premiums[1].Prior_Earned,
                         premiums[1].Prior_Earned)

\* C23: the growth-rate inputs of the decision engine never divide by zero
\* and never fire a rule on missing data: without a claim-count row or with
\* a prior count of 0, claimCountUp15 is false; without a premium row or
\* with a prior earned premium of 0, premiumChangePct is 0 and rule 5 does
\* not fire; otherwise the rate is (current - prior) / prior.
C23_GrowthInputs ==
    Ready => \A i \in 1..Len(decisionTable.rows) :
                GrowthInputsGuarded(decisionTable.rows[i])

\* Reached: a row whose premium row has a prior of 0 and whose claim-count
\* row has a prior of 0, with the A-vs-E deviation over the tolerance; and
\* the rules do fire on rows with priors.
C23_Witness ==
    /\ Ready
    /\ \E i \in 1..Len(decisionTable.rows) :
        LET row == decisionTable.rows[i]
            counts == CountRows(Val(currentClass), row.cohort)
            premiums == PremiumRows(Val(currentClass), row.cohort)
        IN  /\ counts # <<>> /\ counts[1].Count_Prior = 0
            /\ premiums # <<>> /\ premiums[1].Prior_Earned = 0
            /\ premiums[1].Earned > 0
            /\ OptsOfRow(row).aeOverThreshold
            /\ row.driver = "Unclear"

(* ------------------------------------------------------------------ *)
(* Failure of the fetch (SpecBoot)                                    *)
(* ------------------------------------------------------------------ *)
\* No view has been rendered and no global has been set.
NothingRendered ==
    /\ lhsChart = EmptyLHSChart /\ pctChart = EmptyPctChart
    /\ normChart = EmptyNormChart /\ claimsTable = EmptyClaimsTable
    /\ decisionTable = EmptyDecisionTable /\ methodsCount = 0
    /\ scoresTable = EmptyScoresTable
    /\ currentClass = NULL /\ currentMethod = NULL /\ selectedCohort = NULL

\* A step that renders a view.
RendersAView ==
    <<lhsChart, pctChart, normChart, claimsTable, decisionTable, methodsCount, scoresTable>>'
        # <<lhsChart, pctChart, normChart, claimsTable, decisionTable, methodsCount, scoresTable>>

\* The fetch failed (it rejected) or the response is not OK.
FetchFailed == response.rejected \/ ~response.ok

\* C24: when the fetch fails or the response is not OK, initDashboard ends
\* in a failure state: the main area shows the error text, dashboardData
\* is still null, nothing has been rendered, and no handler runs from then
\* on (no step leaves the failure state); and every step that renders a
\* view runs with dashboardData set.
C24_FetchFailure ==
    /\ []((FetchFailed /\ phase # "start") =>
            /\ phase = "failed"
            /\ failure = (IF response.rejected THEN Some("Failed to fetch")
                          ELSE Some(response.statusText))
            /\ dashboardData = NULL
            /\ NothingRendered)
    /\ [][/\ phase # "failed"
           /\ RendersAView => dashboardData # NULL /\ dashboardData' # NULL]_vars

\* Reached: the failure state with the text of a response that is not OK.
C24_Witness ==
    /\ phase = "failed" /\ ~response.ok /\ ~response.rejected
    /\ failure = Some("Internal Server Error") /\ dashboardData = NULL

(* ------------------------------------------------------------------ *)
(* The selected cohort belongs to the current class (Spec)            *)
(* ------------------------------------------------------------------ *)
SelectionOfCurrentClass ==
    \/ IsNull(selectedCohort)
    \/ /\ ~IsNull(currentClass)
       /\ Val(selectedCohort) \in CohortsOfClass(Val(currentClass))

\* C25: in every state reached by class changes, method changes, slider
\* input, chart clicks, decision-row clicks and the clear button,
\* selectedCohort is null or a cohort with a record of currentClass; a
\* class change leaves selectedCohort null.
C25_SelectionOfCurrentClass ==
    /\ [](SelectionOfCurrentClass)
    /\ [][(phase = "ready" /\ currentClass' # currentClass)
             => IsNull(selectedCohort')]_vars

\* Reached: the class was changed while a cohort was selected that the new
\* class does not have, and a cohort of the new class is selected now.
C25_Witness ==
    /\ phase = "ready"
    /\ currentClass = Some("Property")
    /\ selectedCohort = Some("2022Q1")
    /\ "2021Q1" \notin CohortsOfClass("Property")
    /\ "2021Q1" \in CohortsOfClass("Motor")

(* ------------------------------------------------------------------ *)
(* selectCohort is a toggle (SpecSelect)                              *)
(* ------------------------------------------------------------------ *)
\* The step of selectCohort(c).
TogglesCohort(c) ==
    IF selectedCohort = Some(c)
    THEN selectedCohort' = NULL /\ rhsPanelView' = rhsPanelView
    ELSE selectedCohort' = Some(c) /\ rhsPanelView' = "claims"

\* C26: selectCohort(c) leaves selectedCohort null if it was c and c
\* otherwise; when it selects, the RHS panel is 'claims' afterwards, when
\* it deselects, rhsPanelView is unchanged; it never changes currentClass,
\* currentMethod or qualityThreshold.
C26_SelectCohortToggles ==
    [][selectedCohort' # selectedCohort =>
          /\ \E c \in Range(CohortOrder) : TogglesCohort(c)
          /\ UNCHANGED <<currentClass, currentMethod, qualityThreshold>>]_vars

\* Reached: selectCohort has selected a cohort (only the chart click
\* selects here) and the charts panel is showing again, so that the next
\* click on the cohort deselects it with the panel on 'charts'.
C26_Witness ==
    /\ phase = "ready"
    /\ selectedCohort = Some("2022Q1")
    /\ lhsChart.highlight = selectedCohort
    /\ rhsPanelView = "charts"

(* ------------------------------------------------------------------ *)
(* Independence of the quality threshold (Spec)                       *)
(* ------------------------------------------------------------------ *)
\* What a decision row shows, without the marker of the selected cohort.
RowValues(row) ==
    [cohort |-> row.cohort, aeRatio |-> row.aeRatio, ultChgPct |-> row.ultChgPct,
     resDet |-> row.resDet, pq |-> row.pq, inFO |-> row.inFO,
     methodType |-> row.methodType, driver |-> row.driver,
     suggestion |-> row.suggestion, aeClass |-> row.aeClass,
     dimmed |-> row.dimmed]

ThresholdFree ==
    <<pctChart.series, pctChart.fanning, normChart.fanning,
      [i \in 1..Len(decisionTable.rows) |-> RowValues(decisionTable.rows[i])]>>

\* C27: the percent-of-ultimate series, both fanning sets and every decision
\* row are independent of qualityThreshold: the slider handler, which
\* renders everything again from a state that differs only in
\* qualityThreshold, leaves them as they were.
C27_ThresholdIndependence ==
    [][qualityThreshold' # qualityThreshold => ThresholdFree' = ThresholdFree]_vars

\* Reached: the threshold has been moved, rows and series are displayed,
\* and the bands drawn differ from those of threshold 0.
C27_Witness ==
    /\ Ready
    /\ qualityThreshold # 0
    /\ Len(decisionTable.rows) > 0
    /\ Len(pctChart.series) > 0
    /\ lhsChart.bands # renderLHSChart(chartViewMode, currentClass, currentMethod,
                                        selectedCohort, 0, lhsChart).bands
    /\ getPassingMethods(Val(currentClass)) # PassingMethodsAt(Val(currentClass), 0)

(* ------------------------------------------------------------------ *)
(* A-vs-E ratio and ultimate change of a method (SpecAE)              *)
(* ------------------------------------------------------------------ *)
\* The cohorts counted in the A-vs-E totals: an Actual point, a non-zero
\* E2U and a non-zero expected amount at the last period.
AECohorts(cls) ==
    {c \in CohortsOfClass(cls) :
        /\ HasActualAndE2U(cls, c)
        /\ F144(LastDPOf(cls, c)) # 0}

\* 144 * lastActual and 144 * E2U * f(lastDP) of a cohort.
A144(cls, c) == 144 * (CHOOSE a \in LastActualsOf(cls, c) : TRUE)
E144(cls, c) ==
    (CHOOSE e \in FirstExpectedOf(cls, c) : TRUE) * F144(LastDPOf(cls, c))

RECURSIVE SumA144(_, _)
SumA144(cls, S) ==
    IF S = {} THEN 0
    ELSE LET c == CHOOSE x \in S : TRUE
         IN  A144(cls, c) + SumA144(cls, S \ {c})

RECURSIVE SumE144(_, _)
SumE144(cls, S) ==
    IF S = {} THEN 0
    ELSE LET c == CHOOSE x \in S : TRUE
         IN  E144(cls, c) + SumE144(cls, S \ {c})

\* ae is (sum A - sum E) / sum E, null when sum E is 0.
IsClassAeRatio(ae, cls) ==
    LET sumA == SumA144(cls, AECohorts(cls))
        sumE == SumE144(cls, AECohorts(cls))
    IN  IF sumE = 0 THEN IsNull(ae)
        ELSE /\ ~IsNull(ae)
             /\ Val(ae)[2] # 0
             /\ Val(ae)[1] * sumE = Val(ae)[2] * (sumA - sumE)

\* A cohort has a current ultimate and a non-zero prior ultimate of the
\* method.
HasBothUltimates(cls, c, mth) ==
    /\ ~IsNull(StoredValue(dashboardData.ultimates, cls, c, mth))
    /\ ~IsNull(StoredValue(dashboardData.prior_ultimates, cls, c, mth))
    /\ StoredValue(dashboardData.prior_ultimates, cls, c, mth) # Some(0)

\* C28: for a class, the aeRatio of getMethodAEAndUltChange is the same for
\* every method; it is (sum of lastActual - sum of E2U*f(lastDP)) / (sum of
\* E2U*f(lastDP)) over the cohorts whose E2U and expected amount are
\* non-zero, null when that sum is 0; ultChg is null when no cohort has
\* both a current and a non-zero prior ultimate.
C28_MethodAEAndUltChange ==
    (phase = "ready" /\ ~IsNull(currentClass)) =>
        LET cls == Val(currentClass)
        IN  /\ \A r1 \in scoresTable.rows, r2 \in scoresTable.rows :
                   r1.aeRatio = r2.aeRatio
            /\ \A r \in scoresTable.rows :
                   /\ r.aeRatio = getMethodAEAndUltChange(cls, r.method).aeRatio
                   /\ r.ultChg = getMethodAEAndUltChange(cls, r.method).ultChg
                   /\ IsClassAeRatio(r.aeRatio, cls)
                   /\ (\A c \in Cohorts : ~HasBothUltimates(cls, c, r.method))
                          => IsNull(r.ultChg)

\* Reached: two cohorts are counted in the ratio shown for two methods, of
\* which one has an ultimate change and the other none.
C28_Witness ==
    /\ phase = "ready" /\ currentClass = Some("Motor")
    /\ Cardinality(AECohorts("Motor")) = 2
    /\ \E r1 \in scoresTable.rows, r2 \in scoresTable.rows :
           /\ r1.method # r2.method
           /\ ~IsNull(r1.aeRatio)
           /\ ~IsNull(r1.ultChg) /\ IsNull(r2.ultChg)

(* ------------------------------------------------------------------ *)
(* The seven results of the decision DAG (SpecDAG)                    *)
(* ------------------------------------------------------------------ *)
DagPairs ==
    { DagResult("", ""),
      DagResult("Trend acceleration", "Check if the pattern is speeding up."),
      DagResult("Claim frequency",
                "Check if the pattern was slowing down - movement may be driven by more claims than expected."),
      DagResult("Large losses",
                "Keep pattern as-is but treat large losses separately."),
      DagResult("Premium growth", "Move toward premium-based method."),
      DagResult("Method mismatch", "Switch to claims-based method."),
      DagResult("Unclear", "Manual review of cohort experience.") }

RowIsOneOfSeven(row) ==
    LET within == FLe(FAbs(row.aeRatio), <<1, 20>>)
    IN  /\ DagResult(row.driver, row.suggestion) \in DagPairs
        /\ runDecisionDAG(Val(currentClass), row.cohort, OptsOfRow(row))
               = DagResult(row.driver, row.suggestion)
        /\ (row.driver = "") <=> (row.suggestion = "")
        /\ (row.driver = "") <=> within
        /\ row.dimmed <=> (row.driver = "")
        /\ (row.aeClass \in {"dec-ae-adverse", "dec-ae-favourable"})
               <=> (row.driver # "")
        /\ row.aeClass \in {"dec-ae-adverse", "dec-ae-favourable", ""}

\* C29: runDecisionDAG returns one of seven (driver, suggestion) pairs, the
\* suggestion determined by the driver; the driver is empty iff the
\* suggestion is empty iff |aeRatio| <= 0.05; a decision row is dimmed
\* exactly when its driver is empty and is marked adverse or favourable
\* exactly when its driver is not.
C29_SevenResults ==
    /\ \A p \in DagPairs, q \in DagPairs : p.driver = q.driver => p = q
    /\ Cardinality(DagPairs) = 7
    /\ Ready => \A i \in 1..Len(decisionTable.rows) :
                    RowIsOneOfSeven(decisionTable.rows[i])

\* Reached: a table with a dimmed row without driver, a row marked
\* favourable and a row marked adverse, both with a driver.
C29_Witness ==
    /\ Ready
    /\ \E i, j, k \in 1..Len(decisionTable.rows) :
           /\ decisionTable.rows[i].dimmed /\ decisionTable.rows[i].driver = ""
           /\ decisionTable.rows[j].aeClass = "dec-ae-favourable"
           /\ decisionTable.rows[j].driver # ""
           /\ decisionTable.rows[k].aeClass = "dec-ae-adverse"
           /\ decisionTable.rows[k].driver \notin {"", "Unclear"}

(* ------------------------------------------------------------------ *)
(* The band and the selected method (SpecBandMethod)                  *)
(* ------------------------------------------------------------------ *)
\* A value lies within a band that is not null.
WithinBand(v, band) ==
    /\ ~IsNull(band)
    /\ Val(band).min <= v /\ v <= Val(band).max

\* The methods scored for a class with a non-negative Proj_Quality.
ScoredMethods(cls) ==
    {sc.Method : sc \in {x \in Range(dashboardData.method_scores) :
                            x.Class = cls /\ x.Proj_Quality >= 0}}

BandHoldsMethod(cls, k) ==
    LET passing == getPassingMethods(cls)
        band == getUltimateBand(cls, k, passing)
    IN  /\ ~IsNull(band) => (Val(band).count >= 1 /\ Val(band).min <= Val(band).max)
        /\ (k \in DOMAIN lhsChart.bands) => Some(lhsChart.bands[k]) = band
        /\ (/\ ~IsNull(currentMethod)
            /\ Includes(passing, Val(currentMethod))
            /\ ~IsNull(getUltimate(cls, k, Val(currentMethod))))
               => WithinBand(Val(getUltimate(cls, k, Val(currentMethod))), band)
        /\ qualityThreshold = 0 =>
               /\ \A m \in ScoredMethods(cls) : Includes(passing, m)
               /\ \A u \in Range(dashboardData.ultimates) :
                      (u.Class = cls /\ u.Cohort = k /\ u.Method \in ScoredMethods(cls))
                          => WithinBand(u.Ultimate, band)

\* C30: a band of getUltimateBand that is not null has count >= 1 and
\* min <= max; when currentMethod passes and has an ultimate for the
\* cohort, that ultimate lies within the band; at qualityThreshold 0 every
\* method scored for the class with a non-negative Proj_Quality passes and
\* the band spans all of those methods' ultimates.
C30_BandHoldsMethod ==
    (phase = "ready" /\ ~IsNull(currentClass)) =>
        \A k \in Cohorts : BandHoldsMethod(Val(currentClass), k)

\* Reached: at threshold 0, with the second method selected, a band over
\* two methods is drawn with the selected method's ultimate at its upper
\* end and the other method's at its lower end.
C30_Witness ==
    /\ phase = "ready" /\ currentClass = Some("Motor")
    /\ currentMethod = Some("BF")
    /\ qualityThreshold = 0
    /\ "2022Q1" \in DOMAIN lhsChart.bands
    /\ lhsChart.bands["2022Q1"].count >= 2
    /\ lhsChart.bands["2022Q1"].min < lhsChart.bands["2022Q1"].max
    /\ getUltimate("Motor", "2022Q1", "BF") = Some(lhsChart.bands["2022Q1"].max)
    /\ Includes(getPassingMethods("Motor"), "BF")


====
